---- MODULE Spec2Model ----
(***************************************************************************)
(* State-machine model of AppCore (src/src/app/app_core.cpp): the per-frame *)
(* dispatcher, the auto-cycle/transition controller, the Double Exposure   *)
(* ring buffer and the multi-panel compositor.                             *)
(*                                                                         *)
(* Two threads act on one AppCore: the frame thread runs processFrame, one *)
(* model step per access to an atomic control signal, and the input thread *)
(* stores into the atomics (setDisplayMode, setPanelEffect, ...).          *)
(*                                                                         *)
(* Frames are modelled by their size; the contents of a stored frame by    *)
(* the number of the write that stored it.  transition_alpha_ is the       *)
(* rational alphaNum / TRANSITION_FRAMES.                                  *)
(***************************************************************************)
EXTENDS Integers, Sequences, FiniteSets, TLC

\* ------------------------------------------------------------------ constants
MAX_FRAME_HISTORY == 90
MIN_TIME_OFFSET == 15
MAX_TIME_OFFSET == 75
INITIAL_TIME_OFFSET == 30
OFFSET_PERIOD == 60
MIN_CYCLE_SECONDS == 3
MAX_CYCLE_SECONDS == 7
TRANSITION_FRAMES == 30
FPS == 30
NUM_MODES == 8
DOUBLE_EXPOSURE == 7
PROCEDURAL_SHAPES == 8
EXTEND == 0
REPEAT == 1
\* include/effects/ambient/mandelbrot_root_veins.h
MAX_SEGMENTS == 800
MAX_GENERATION == 8
\* include/effects/ambient/oval_chain.h (HOLE_RATIO in hundredths)
FROM_LEFT == 0
FROM_RIGHT == 1
FROM_TOP == 2
FROM_BOTTOM == 3
TRAVERSE_TIME == 4
OSCILLATION_AMPLITUDE == 6
MAX_TRAIL_LINKS == 40
LINK_OUTER_WIDTH == 28
LINK_OUTER_HEIGHT == 12
HOLE_RATIO == 55

\* --------------------------------------------------------------------- bounds
\* Largest chain length (num_panels) the constructor is called with.
MaxPanels == 2
\* Frames written into one Double Exposure ring before the camera stops.
MaxWrites == 130
\* Resolution changes of the input stream in one run.
MaxResizes == 1
\* Auto-cycle switches in one run of the cycle specification.
MaxSwitches == 2
\* Calls of toggleAutoCycling in one run.
MaxToggles == 2
\* Frames delivered in one run of the compositor specifications.
MaxFrames == 3
MaxStores == 3
\* Frames written into the ring in a run with resolution changes.
MaxResizeWrites == 35
MaxTwinFrames == 32
\* process() calls made on the generators of one run.
MaxGenCalls == 5
\* Intersections one checkIntersections call finds, branches spawned and elements
\* marked as wilting in one run, process() ticks of the vein generator.
MaxBranches == 2
MaxSpawned == 1
MaxMarked == 1
MaxVeinTicks == 3
\* Branches spawned and segments held in one run of the generation specification.
MaxGenerationSpawns == 10
MaxGenerationSegments == 16
\* process() calls on the chain generator: one cycle of 120 ticks and the restart.
MaxChainTicks == 125
\* process() calls on the shape generator: five morphs of 134 ticks and the wrap of
\* the shape index.
MaxShapeTicks == 675
\* Frames in one run of the time-offset specification (one re-roll and two frames
\* after it), and the times the runner switches per-panel effects on or off in it.
MaxOffsetFrames == 62
MaxOffsetStores == 1

\* Frame sizes <<width, height>> the capture delivers.
FrameSizes == {<<4, 2>>, <<5, 2>>}
\* The effect numbers the input thread selects (9 is not a known effect).
SelectableEffects == {1, 4, 7, 8, 9}
\* The effect numbers it gives to single panels.
PanelSelectableEffects == {4, 7, 8, 9}

VARIABLES
    display_mode,          \* std::atomic<int> display_mode_
    multi_panel_enabled,   \* std::atomic<bool> multi_panel_enabled_
    panel_mode,            \* std::atomic<int> panel_mode_
    panel_effects,         \* std::atomic<int> panel_effects_[MAX_PANELS]
    num_panels,            \* num_panels_
    width,                 \* width_
    height,                \* height_
    sil,                   \* silhouette_frame_ (0) and panel_silhouette_frames_ (1..N): size
    trail,                 \* trail_age_buffer_: size
    de,                    \* Double Exposure state, global (0) and per panel (1..N)
    panel_init,            \* panel_resources_initialized_
    ac,                    \* auto-cycling fields
    pc,                    \* position of the frame thread inside processFrame
    in,                    \* in_bgr of the current processFrame call
    out,                   \* out_bgr
    loc,                   \* locals of processFrame / processMultiPanel
    act,                   \* what the current processFrame call has touched so far
    hist,                  \* history of the run (frames, switches, resizes)
    veins,                 \* MandelbrotRootVeinsEffect: segments_ and time_
    chain,                 \* OvalChainEffect: trail_links_, time_, cycle_start_time_, direction
    call                   \* the last process() call made on a procedural generator

vars == <<display_mode, multi_panel_enabled, panel_mode, panel_effects, num_panels,
          width, height, sil, trail, de, panel_init, ac, pc, in, out, loc, act, hist,
          veins, chain, call>>

ctlVars == <<display_mode, multi_panel_enabled, panel_mode, panel_effects>>
bufVars == <<sil, trail, de, panel_init>>
genVars == <<veins, chain, call>>
coreVars == <<display_mode, multi_panel_enabled, panel_mode, panel_effects, num_panels,
              width, height, sil, trail, de, panel_init, ac, pc, in, out, loc, act, hist>>

\* A run of the core alone: no stand-alone generator object exists.
NoGenerators ==
    /\ veins = <<>>
    /\ chain = <<>>
    /\ call = <<>>

\* ------------------------------------------------------------------- helpers
Global == 0
PanelCtx(i) == i + 1

\* C++ integer remainder: the result has the sign of the dividend.
CMod(a, b) == IF a >= 0 THEN a % b ELSE 0 - ((0 - a) % b)


\* cv::Mat() : an empty matrix.
EmptyMat == [w |-> 0, h |-> 0, ch |-> 0]
IsEmpty(m) == m.w = 0 \/ m.h = 0
Mat3(w, h) == [w |-> w, h |-> h, ch |-> 3]
SameSize(a, b) == a.w = b.w /\ a.h = b.h

\* One slot of a frame-history ring: seq = 0 is a default-constructed (empty) Mat,
\* seq = k > 0 the frame stored by the k-th write into that ring.
EmptySlot == [seq |-> 0, w |-> 0, h |-> 0]

TimeOffsets == MIN_TIME_OFFSET .. MAX_TIME_OFFSET
CycleSeconds == MIN_CYCLE_SECONDS .. MAX_CYCLE_SECONDS

\* getRandomCycleInterval with rand() % 5 = seconds - MIN_CYCLE_SECONDS.
getRandomCycleInterval(seconds) == seconds * FPS


\* ------------------------------------------------ effect state and rendering
\* What an effect processor hands back: the size of the frame it produced, the
\* algorithm that produced it (k), the context whose buffers it used (ctx), the
\* minimum contour area it filtered with (area), the stored frame it blended in
\* (past, 0 for none) and whether it returned normally (ok = FALSE: a cv::Exception
\* left the call).
Render(k, eff, c, w, h, ch, area, past, ok) ==
    [k |-> k, eff |-> eff, ctx |-> c, w |-> w, h |-> h, ch |-> ch,
     area |-> area, past |-> past, ok |-> ok]

NoRender == Render("none", 0, 0, 0, 0, 0, 0, 0, TRUE)

\* A fresh per-context Double Exposure state (app_core.h:93-96, app_core.cpp:689-692).
FreshDE(offset) ==
    [ring |-> <<>>, idx |-> 0, fcount |-> 0, toff |-> offset, written |-> 0]

\* The buffers and counters an effect processor works on.
Bufs == [sil |-> sil, trail |-> trail, de |-> de, act |-> act]

ApplyBg(a, c) == [a EXCEPT !.bg[c] = @ + 1]
TouchSil(a, c) == [a EXCEPT !.sil[c] = @ + 1]
TouchRing(a, c) == [a EXCEPT !.ring[c] = @ + 1]

\* Line 651: index of the past frame, computed from the already advanced write index.
PastFrameIndexOffByTwo(history_index, time_offset) ==
    CMod(history_index - time_offset - 1 + MAX_FRAME_HISTORY, MAX_FRAME_HISTORY)

PastFrameIndex(history_index, time_offset) ==
    CMod(history_index - time_offset + MAX_FRAME_HISTORY, MAX_FRAME_HISTORY)

\* Line 654: the past frame exists when its slot holds a non-empty Mat.
PastExists(slot) == slot.seq # 0

\* (A re-roll on every frame.)
OffsetDueEveryFrame(frame_counter) == TRUE

\* Line 644: the counter, already incremented, has reached the period.
OffsetDue(frame_counter) == frame_counter >= OFFSET_PERIOD

\* processDoubleExposureWithState (lines 627-681) on context c, bg subtractor of
\* context c, input frame f; roll is the value rand() yields at line 646.
DoubleExposureWithState(b, c, f, roll) ==
    LET d    == b.de[c]
        r0   == IF DOMAIN d.ring = {}
                THEN [k \in 0 .. MAX_FRAME_HISTORY - 1 |-> EmptySlot]
                ELSE d.ring
        r1   == [r0 EXCEPT ![d.idx] = [seq |-> d.written + 1, w |-> f.w, h |-> f.h]]
        idx1 == CMod(d.idx + 1, MAX_FRAME_HISTORY)
        fc1  == d.fcount + 1
        toff == IF OffsetDue(fc1) THEN roll ELSE d.toff
        fc2  == IF OffsetDue(fc1) THEN 0 ELSE fc1
        past == PastFrameIndex(idx1, toff)
        d1   == [ring |-> r1, idx |-> idx1, fcount |-> fc2, toff |-> toff,
                 written |-> d.written + 1]
        b1   == [b EXCEPT !.de[c] = d1, !.act = TouchRing(@, c)]
    IN  IF PastExists(r1[past])
        THEN [b |-> [b1 EXCEPT !.act = ApplyBg(@, c)],
              res |-> Render("dexp_blend", DOUBLE_EXPOSURE, c, f.w, f.h, 3, 0, r1[past].seq,
                             r1[past].w = f.w /\ r1[past].h = f.h)]
        ELSE [b |-> b1,
              res |-> Render("dexp_pass", DOUBLE_EXPOSURE, c, f.w, f.h, f.ch, 0, 0, TRUE)]

\* processPassThrough (lines 140-142): out_bgr = in_bgr.
\* (A default branch that leaves the output as it was.)
PassThroughMissing(b, eff, c, f) ==
    [b |-> b, res |-> Render("untouched", eff, c, 0, 0, 0, 0, 0, TRUE)]

PassThrough(b, eff, c, f) ==
    [b |-> b, res |-> Render("pass", eff, c, f.w, f.h, f.ch, 0, 0, TRUE)]

\* processProceduralShapes (lines 336-338): a black canvas of width_ x height_.
ProceduralShapes(b, c, w, h) ==
    [b |-> b, res |-> Render("shapes", PROCEDURAL_SHAPES, c, w, h, 3, 0, 0, TRUE)]

\* The switch of processFrame (lines 94-104, 109-119, 126-136) for one effect number.
ProcessGlobal(b, effect, f, roll) ==
    CASE effect = 1 -> PassThrough(b, effect, Global, f)
      [] effect = 2 ->
            [b |-> [b EXCEPT !.act = ApplyBg(@, Global)],
             res |-> Render("filled", 2, Global, f.w, f.h, 3, 1000, 0, TRUE)]
      [] effect = 3 ->
            [b |-> [b EXCEPT !.act = ApplyBg(@, Global)],
             res |-> Render("outline", 3, Global, f.w, f.h, 3, 1000, 0, TRUE)]
      [] effect = 4 ->
            [b |-> [b EXCEPT !.act = TouchSil(ApplyBg(@, Global), Global),
                             !.sil[Global].dirty = TRUE],
             res |-> Render("trails", 4, Global, b.sil[Global].w, b.sil[Global].h, 3,
                            1000, 0, TRUE)]
      [] effect = 5 ->
            [b |-> [b EXCEPT !.act = TouchSil(ApplyBg(@, Global), Global),
                             !.sil[Global].dirty = TRUE],
             res |-> Render("energy", 5, Global, b.sil[Global].w, b.sil[Global].h, 3,
                            1000, 0, TRUE)]
      [] effect = 6 ->
            [b |-> [b EXCEPT !.act = ApplyBg(@, Global), !.trail.dirty = TRUE],
             res |-> Render("rainbow", 6, Global, f.w, f.h, 3, 1500, 0,
                            b.trail.w = f.w /\ b.trail.h = f.h)]
      [] effect = DOUBLE_EXPOSURE -> DoubleExposureWithState(b, Global, f, roll)
      [] effect = PROCEDURAL_SHAPES -> ProceduralShapes(b, Global, width, height)
      [] OTHER -> PassThrough(b, effect, Global, f)

\* processPanelRegion, lines 800-805: the panel's accumulator follows the region size.
PanelSilFor(b, c, f) ==
    IF b.sil[c].w # f.w \/ b.sil[c].h # f.h
    THEN [b EXCEPT !.sil[c] = [w |-> f.w, h |-> f.h, dirty |-> FALSE]]
    ELSE b

\* The context whose motion model and buffers processPanelRegion uses for panel i.
PanelStateSharedCtx(i) == Global

PanelStateCtx(i) == PanelCtx(i)

\* processPanelRegion (lines 798-945) for panel i on region f.
ProcessPanelRegion(b0, effect, i, f, roll) ==
    LET c == PanelStateCtx(i)
        b == PanelSilFor(b0, c, f)
    IN  CASE effect = 1 -> PassThrough(b, effect, c, f)
          [] effect = 2 ->
                [b |-> [b EXCEPT !.act = ApplyBg(@, c)],
                 res |-> Render("filled", 2, c, f.w, f.h, 3, 500, 0, TRUE)]
          [] effect = 3 ->
                [b |-> [b EXCEPT !.act = ApplyBg(@, c)],
                 res |-> Render("outline", 3, c, f.w, f.h, 3, 500, 0, TRUE)]
          [] effect = 4 ->
                [b |-> [b EXCEPT !.act = TouchSil(ApplyBg(@, c), c), !.sil[c].dirty = TRUE],
                 res |-> Render("trails", 4, c, b.sil[c].w, b.sil[c].h, 3, 500, 0, TRUE)]
          [] effect = 5 ->
                [b |-> [b EXCEPT !.act = TouchSil(ApplyBg(@, c), c), !.sil[c].dirty = TRUE],
                 res |-> Render("energy", 5, c, b.sil[c].w, b.sil[c].h, 3, 500, 0, TRUE)]
          [] effect = 6 ->
                [b |-> [b EXCEPT !.act = ApplyBg(@, c)],
                 res |-> Render("rainbow_simple", 6, c, f.w, f.h, 3, 500, 0, TRUE)]
          [] effect = DOUBLE_EXPOSURE -> DoubleExposureWithState(b, c, f, roll)
          [] effect = PROCEDURAL_SHAPES -> ProceduralShapes(b, Global, f.w, f.h)
          [] OTHER -> PassThrough(b, effect, c, f)


\* ------------------------------------------------------------ initial state
NoOutput == [w |-> 0, h |-> 0, ch |-> 0, reg |-> <<>>, blend |-> FALSE, alphaNum |-> 0,
             prev |-> NoRender, cur |-> NoRender]

FreshLocals ==
    [saved_mode |-> 0, next_mode |-> 0, mode |-> 0, individual |-> FALSE,
     full7 |-> FALSE, i |-> 0, panel_width |-> 0,
     prev_output |-> NoRender, processed_full |-> NoRender,
     used |-> [display_mode |-> {}, multi_panel_enabled |-> {}, panel_mode |-> {}]]

NoActivity(n) ==
    [bg |-> [c \in 0 .. n |-> 0], sil |-> [c \in 0 .. n |-> 0], ring |-> [c \in 0 .. n |-> 0]]

\* The auto-cycling members as app_core.h:121-126 initialises them.
FreshCycle ==
    [enabled |-> TRUE, counter |-> 0, untilNext |-> 0, remaining |-> 0,
     previous_mode |-> 1, alphaNum |-> 0]

FreshHistory ==
    [switches |-> 0, resizes |-> 0, resized |-> FALSE,
     sinceIdle |-> 0, sinceSwitch |-> 0, afterSwitch |-> -1, steady |-> FALSE,
     switched |-> FALSE, atSwitch |-> [idle |-> 0, sw |-> 0], toggles |-> 0,
     frames |-> 0, stores |-> 0, atBegin |-> [mode |-> 1, ac |-> FreshCycle],
     sinceEnable |-> 2, twin |-> 0, lastSet |-> 0]

\* AppCore::AppCore (lines 11-23) and the member initialisers of app_core.h.
Constructed(w, h, n) ==
    /\ display_mode = 1
    /\ multi_panel_enabled = FALSE
    /\ panel_mode = EXTEND
    /\ panel_effects = [i \in 0 .. n - 1 |-> 1]
    /\ num_panels = n
    /\ width = w
    /\ height = h
    /\ sil = [c \in {Global} |-> [w |-> w, h |-> h, dirty |-> FALSE]]
    /\ trail = [w |-> w, h |-> h, dirty |-> FALSE]
    /\ de = [c \in {Global} |-> FreshDE(INITIAL_TIME_OFFSET)]
    /\ panel_init = FALSE
    /\ ac = [enabled |-> TRUE, counter |-> 0, untilNext |-> 0, remaining |-> 0,
             previous_mode |-> 1, alphaNum |-> 0]
    /\ pc = "idle"
    /\ in = EmptyMat
    /\ out = NoOutput
    /\ loc = FreshLocals
    /\ act = NoActivity(n)
    /\ hist = FreshHistory
    /\ NoGenerators

\* ------------------------------------------------------- input-thread stores
\* setDisplayMode (lines 25-27).
SetDisplayMode(m) ==
    /\ display_mode' = m
    /\ UNCHANGED <<genVars, multi_panel_enabled, panel_mode, panel_effects, num_panels, width,
                   height, sil, trail, de, panel_init, ac, pc, in, out, loc, act>>
    /\ hist' = [hist EXCEPT !.stores = @ + 1,
                            !.lastSet = IF pc # "idle" THEN m ELSE 0]

\* setMultiPanelEnabled (lines 54-56).
SetMultiPanelEnabled(e) ==
    /\ multi_panel_enabled' = e
    /\ UNCHANGED <<genVars, display_mode, panel_mode, panel_effects, num_panels, width,
                   height, sil, trail, de, panel_init, ac, pc, in, out, loc, act>>
    /\ hist' = [hist EXCEPT !.stores = @ + 1]

\* setPanelMode (lines 58-60).
SetPanelMode(m) ==
    /\ panel_mode' = m
    /\ UNCHANGED <<genVars, display_mode, multi_panel_enabled, panel_effects, num_panels, width,
                   height, sil, trail, de, panel_init, ac, pc, in, out, loc, act>>
    /\ hist' = [hist EXCEPT !.stores = @ + 1]

\* setPanelEffect (lines 33-37).
SetPanelEffect(i, e) ==
    /\ panel_effects' = IF i >= 0 /\ i < num_panels
                        THEN [panel_effects EXCEPT ![i] = e]
                        ELSE panel_effects
    /\ UNCHANGED <<genVars, display_mode, multi_panel_enabled, panel_mode, num_panels, width,
                   height, sil, trail, de, panel_init, ac, pc, in, out, loc, act>>
    /\ hist' = [hist EXCEPT !.stores = @ + 1]

\* toggleAutoCycling (lines 993-1001); the runner calls it between two processFrame
\* calls of its frame loop (desktop_to_matrix.cpp:173, 266-268).
\* Lines 995-1000: the members after auto-cycling was switched back on.
ReenabledKeepsTransition(a, seconds) ==
    [a EXCEPT !.enabled = TRUE, !.counter = 0,
              !.untilNext = getRandomCycleInterval(seconds)]

Reenabled(a, seconds) ==
    [a EXCEPT !.enabled = TRUE, !.counter = 0,
              !.untilNext = getRandomCycleInterval(seconds),
              !.remaining = 0]

\* (Switching off as if it also ended the transition.)
DisabledCancelsTransition(a) == [a EXCEPT !.enabled = FALSE, !.remaining = 0]

\* Line 994 when auto-cycling was on: only the flag changes.
Disabled(a) == [a EXCEPT !.enabled = FALSE]

ToggleAutoCycling(seconds) ==
    /\ pc = "idle"
    /\ ac' = IF ac.enabled
             THEN Disabled(ac)
             ELSE Reenabled(ac, seconds)
    /\ hist' = IF ac.enabled
               THEN [hist EXCEPT !.steady = FALSE, !.toggles = @ + 1]
               ELSE [hist EXCEPT !.steady = FALSE, !.toggles = @ + 1,
                                 !.sinceIdle = 0, !.sinceSwitch = 0,
                                 !.sinceEnable = 0]
    /\ UNCHANGED <<genVars, display_mode, multi_panel_enabled, panel_mode, panel_effects,
                   num_panels, width, height, sil, trail, de, panel_init, pc, in, out,
                   loc, act>>

\* ------------------------------------------------ processFrame, frame thread
\* ensureSize (lines 46-52): the buffers it reallocates, for an input of size w x h.
EnsureSize(w, h) ==
    IF w = width /\ h = height /\ ~IsEmpty(sil[Global])
    THEN [width |-> width, height |-> height, sil |-> sil, trail |-> trail]
    ELSE [width |-> w, height |-> h,
          sil |-> [sil EXCEPT ![Global] = [w |-> w, h |-> h, dirty |-> FALSE]],
          trail |-> [w |-> w, h |-> h, dirty |-> FALSE]]

\* updateAutoCycling, lines 947-968: everything up to the decision to switch.
\* due = the condition of line 968.
CycleDueLate(a) == a.counter > a.untilNext

CycleDue(a) == a.counter >= a.untilNext

\* Line 958, as the numerator of transition_alpha_ over TRANSITION_FRAMES.
TransitionAlphaNumBeforeDecrement(remaining) == TRANSITION_FRAMES - (remaining + 1)

TransitionAlphaNum(remaining) == TRANSITION_FRAMES - remaining

\* Lines 948-950: the early return while auto-cycling is disabled.
CyclingOffIgnored(a) == FALSE

CyclingOff(a) == ~a.enabled

UpdateAutoCycling(a, seconds) ==
    IF CyclingOff(a)
    THEN [ac |-> a, due |-> FALSE]
    ELSE LET a1 == [a EXCEPT !.counter = @ + 1]
         IN  IF a1.remaining > 0
             THEN [ac |-> [a1 EXCEPT !.remaining = @ - 1,
                                     !.alphaNum = TransitionAlphaNum(a1.remaining - 1)],
                   due |-> FALSE]
             ELSE LET a2 == IF a1.untilNext = 0
                            THEN [a1 EXCEPT !.untilNext = getRandomCycleInterval(seconds)]
                            ELSE a1
                  IN  [ac |-> a2, due |-> CycleDue(a2)]

\* History of the run, kept for the properties and read by no action:
\*   sinceIdle    processFrame calls with auto-cycling enabled since the controller
\*                last came to rest with no transition in progress (construction,
\*                re-enabling, or the frame that completed a transition);
\*   sinceSwitch  the same, counted from the last switch, construction or re-enabling;
\*   afterSwitch  processFrame calls since the last switch (-1 before the first),
\*                counted up to TRANSITION_FRAMES + 1;
\*   steady       auto-cycling has not been toggled since the last switch;
\*   atSwitch     the two counts at the moment of the last switch, minus the value
\*                frames_until_next_mode_ had then;
\*   toggles      calls of toggleAutoCycling so far;
\*   frames       non-empty frames delivered so far, counted up to MaxFrames;
\*   resizes      frames so far whose size differed from the one before;
\*   sinceEnable  processFrame calls since auto-cycling was last switched back on,
\*                counted up to 2 (2 when it never was);
\*   lastSet      the effect of the last setDisplayMode issued while the current
\*                processFrame call was running (0: none);
\*   atBegin      the active effect and the auto-cycling members as the current (or
\*                last) processFrame call found them.
\* loc.used holds, per control signal, the values the current processFrame call has
\* read from it.
HistoryAfterBegin(f, a) ==
    [hist EXCEPT
        !.atBegin = [mode |-> display_mode, ac |-> a],
        !.lastSet = 0,
        !.sinceEnable = IF @ < 2 THEN @ + 1 ELSE @,
        !.frames = IF @ < MaxFrames THEN @ + 1 ELSE @,
        !.resized = (f.w # width \/ f.h # height),
        !.resizes = IF f.w # width \/ f.h # height THEN @ + 1 ELSE @,
        !.switched = FALSE,
        !.sinceIdle = IF ~a.enabled THEN @
                      ELSE IF a.remaining > 0 THEN 0 ELSE @ + 1,
        !.sinceSwitch = IF a.enabled THEN @ + 1 ELSE @,
        !.afterSwitch = IF @ >= 0 /\ @ < TRANSITION_FRAMES + 1 THEN @ + 1 ELSE @]

\* processFrame lines 66-71: empty-frame return, ensureSize, updateAutoCycling up to
\* line 968.
PF_Begin(f, seconds) ==
    /\ pc = "idle"
    /\ in' = f
    /\ IF IsEmpty(f)
       THEN UNCHANGED <<genVars, width, height, sil, trail, ac, pc, loc, act, hist>>
       ELSE LET e == EnsureSize(f.w, f.h)
                u == UpdateAutoCycling(ac, seconds)
            IN  /\ width' = e.width
                /\ height' = e.height
                /\ sil' = e.sil
                /\ trail' = e.trail
                /\ ac' = u.ac
                /\ pc' = IF u.due THEN "ac_prev" ELSE "flags"
                /\ loc' = FreshLocals
                /\ act' = NoActivity(num_panels)
                /\ hist' = HistoryAfterBegin(f, ac)
    /\ UNCHANGED <<genVars, display_mode, multi_panel_enabled, panel_mode, panel_effects,
                   num_panels, de, panel_init, out>>

\* Line 970: previous_mode_ = display_mode_.load().
AC_SavePrevious ==
    /\ pc = "ac_prev"
    /\ ac' = [ac EXCEPT !.previous_mode = display_mode]
    /\ pc' = "ac_next"
    /\ UNCHANGED <<genVars, ctlVars, num_panels, width, height, bufVars, in, out, loc, act, hist>>

\* Line 973: the successor of the effect read by a second load.
NextMode(m) == CMod(m, NUM_MODES) + 1

AC_LoadNext ==
    /\ pc = "ac_next"
    /\ loc' = [loc EXCEPT !.next_mode = NextMode(display_mode)]
    /\ pc' = "ac_store"
    /\ UNCHANGED <<genVars, ctlVars, num_panels, width, height, bufVars, ac, in, out, act, hist>>

\* Lines 974-982: store the new effect, start the transition, re-roll the interval.
AC_Store(seconds) ==
    /\ pc = "ac_store"
    /\ display_mode' = loc.next_mode
    /\ ac' = [ac EXCEPT !.remaining = TRANSITION_FRAMES, !.alphaNum = 0, !.counter = 0,
                        !.untilNext = getRandomCycleInterval(seconds)]
    /\ hist' = [hist EXCEPT !.switches = @ + 1, !.switched = TRUE, !.afterSwitch = 0,
                            !.steady = TRUE, !.sinceSwitch = 0,
                            !.atSwitch = [idle |-> hist.sinceIdle - ac.untilNext,
                                          sw |-> hist.sinceSwitch - ac.untilNext]]
    /\ pc' = "flags"
    /\ UNCHANGED <<genVars, multi_panel_enabled, panel_mode, panel_effects, num_panels, width,
                   height, bufVars, in, out, loc, act>>

\* (Every frame taking the cross-fade branch of lines 89-123.)
SinglePathAlwaysBlend == "tr_save"

\* Where processFrame goes when it does not use the compositor (lines 85-88).
SinglePath == IF ac.remaining > 0 THEN "tr_save" ELSE "single"

\* Line 77: multi_panel_enabled_.load(), short-circuiting line 78.
PF_LoadMultiPanel ==
    /\ pc = "flags"
    /\ pc' = IF multi_panel_enabled THEN "mp_init"
             ELSE IF num_panels > 1 THEN "flags2" ELSE SinglePath
    /\ loc' = [loc EXCEPT !.used.multi_panel_enabled = @ \cup {multi_panel_enabled}]
    /\ UNCHANGED <<genVars, ctlVars, num_panels, width, height, bufVars, ac, in, out, act, hist>>

\* Line 78: getPanelMode() == PanelMode::REPEAT.
PF_LoadPanelMode ==
    /\ pc = "flags2"
    /\ pc' = IF panel_mode = REPEAT THEN "mp_init" ELSE SinglePath
    /\ loc' = [loc EXCEPT !.used.panel_mode = @ \cup {panel_mode}]
    /\ UNCHANGED <<genVars, ctlVars, num_panels, width, height, bufVars, ac, in, out, act, hist>>


\* The values rand() can yield at line 646 for context c on this call.
RollsFor(c) ==
    IF OffsetDue(de[c].fcount + 1) THEN TimeOffsets ELSE {de[c].toff}

\* out_bgr after a single-context render r.
WholeFrame(r) ==
    [w |-> r.w, h |-> r.h, ch |-> r.ch,
     reg |-> <<[x0 |-> 0, x1 |-> r.w, r |-> r, src |-> "whole", written |-> TRUE]>>,
     blend |-> FALSE, alphaNum |-> 0, prev |-> NoRender, cur |-> NoRender]

\* Lines 122-123: cv::addWeighted(prev_output, 1 - alpha, curr_output, alpha, 0, out_bgr).
AddWeighted(p, c, alphaNum) ==
    LET okb == p.w = c.w /\ p.h = c.h /\ p.ch = c.ch
        r   == Render("blend", c.eff, Global, p.w, p.h, p.ch, 0, 0, okb)
    IN  [w |-> p.w, h |-> p.h, ch |-> p.ch,
         reg |-> <<[x0 |-> 0, x1 |-> p.w, r |-> r, src |-> "whole", written |-> TRUE]>>,
         blend |-> TRUE, alphaNum |-> alphaNum, prev |-> p, cur |-> c]

\* Lines 124-137: no transition, render the current effect.
PF_RenderCurrent ==
    /\ pc = "single"
    /\ \E roll \in RollsFor(Global) :
         LET x == ProcessGlobal(Bufs, display_mode, in, roll)
         IN  /\ sil' = x.b.sil
             /\ trail' = x.b.trail
             /\ de' = x.b.de
             /\ act' = x.b.act
             /\ out' = WholeFrame(x.res)
             /\ pc' = IF x.res.ok THEN "idle" ELSE "threw"
    /\ loc' = [loc EXCEPT !.used.display_mode = @ \cup {display_mode}]
    /\ UNCHANGED <<genVars, ctlVars, num_panels, width, height, panel_init, ac, in, hist>>

\* Line 91: int saved_mode = display_mode_.load().
TR_SaveMode ==
    /\ pc = "tr_save"
    /\ loc' = [loc EXCEPT !.saved_mode = display_mode,
                          !.used.display_mode = @ \cup {display_mode}]
    /\ pc' = "tr_prev"
    /\ UNCHANGED <<genVars, ctlVars, num_panels, width, height, bufVars, ac, in, out, act, hist>>

\* Lines 92-104: display_mode_ = previous_mode_, then render the previous effect.
TR_RenderPrevious ==
    /\ pc = "tr_prev"
    /\ display_mode' = ac.previous_mode
    /\ \E roll \in RollsFor(Global) :
         LET x == ProcessGlobal(Bufs, ac.previous_mode, in, roll)
         IN  /\ sil' = x.b.sil
             /\ trail' = x.b.trail
             /\ de' = x.b.de
             /\ act' = x.b.act
             /\ loc' = [loc EXCEPT !.prev_output = x.res]
             /\ pc' = IF x.res.ok THEN "tr_cur" ELSE "threw"
    /\ UNCHANGED <<genVars, multi_panel_enabled, panel_mode, panel_effects, num_panels, width,
                   height, panel_init, ac, in, out, hist>>

\* Lines 107-123: display_mode_ = saved_mode, render it, blend the two outputs.
TR_RenderCurrent ==
    /\ pc = "tr_cur"
    /\ display_mode' = loc.saved_mode
    /\ \E roll \in RollsFor(Global) :
         LET x == ProcessGlobal(Bufs, loc.saved_mode, in, roll)
             o == AddWeighted(loc.prev_output, x.res, ac.alphaNum)
         IN  /\ sil' = x.b.sil
             /\ trail' = x.b.trail
             /\ de' = x.b.de
             /\ act' = x.b.act
             /\ out' = IF x.res.ok THEN o ELSE out
             /\ pc' = IF x.res.ok /\ o.reg[1].r.ok THEN "idle" ELSE "threw"
    /\ UNCHANGED <<genVars, multi_panel_enabled, panel_mode, panel_effects, num_panels, width,
                   height, panel_init, ac, in, loc, hist>>

\* ------------------------------------------------ processMultiPanel
\* ensurePanelResourcesInitialized (lines 683-701).
EnsurePanelResourcesInitialized ==
    IF panel_init
    THEN [sil |-> sil, de |-> de]
    ELSE [sil |-> [c \in 0 .. num_panels |->
                     IF c = Global THEN sil[Global]
                     ELSE [w |-> width \div num_panels, h |-> height, dirty |-> FALSE]],
          de  |-> [c \in 0 .. num_panels |->
                     IF c = Global THEN de[Global] ELSE FreshDE(MIN_TIME_OFFSET)]]

\* Lines 705-707: lazy initialisation, then PanelMode mode = getPanelMode().
MP_Init ==
    /\ pc = "mp_init"
    /\ LET e == EnsurePanelResourcesInitialized
       IN  /\ sil' = e.sil
           /\ de' = e.de
    /\ panel_init' = TRUE
    /\ loc' = [loc EXCEPT !.mode = panel_mode,
                          !.used.panel_mode = @ \cup {panel_mode}]
    /\ pc' = "mp_indiv"
    /\ UNCHANGED <<genVars, ctlVars, num_panels, width, height, trail, ac, in, out, act, hist>>

\* Line 708: int panel_width = in_bgr.cols / num_panels_.
PanelWidth(cols, n) == cols \div n

\* Lines 708-711: panel_width, individual_effects = multi_panel_enabled_.load(), and
\* the output frame allocated at the input's size.
MP_LoadIndividual ==
    /\ pc = "mp_indiv"
    /\ loc' = [loc EXCEPT !.individual = multi_panel_enabled,
                          !.panel_width = PanelWidth(in.w, num_panels),
                          !.used.multi_panel_enabled = @ \cup {multi_panel_enabled}]
    /\ out' = [NoOutput EXCEPT !.w = in.w, !.h = in.h, !.ch = 3]
    /\ pc' = IF loc.mode = EXTEND /\ ~multi_panel_enabled THEN "mp_m7" ELSE "mp_panel"
    /\ UNCHANGED <<genVars, ctlVars, num_panels, width, height, bufVars, ac, in, act, hist>>

\* Lines 715-718: use_fullframe_mode7, from a load of display_mode_.
MP_LoadMode7 ==
    /\ pc = "mp_m7"
    /\ loc' = [loc EXCEPT !.full7 = (display_mode = DOUBLE_EXPOSURE),
                          !.used.display_mode = @ \cup {display_mode}]
    /\ pc' = IF display_mode = DOUBLE_EXPOSURE THEN "mp_full" ELSE "mp_panel"
    /\ UNCHANGED <<genVars, ctlVars, num_panels, width, height, bufVars, ac, in, out, act, hist>>

\* Lines 724-726: processDoubleExposure(in_bgr, processed_full) on the global state.
MP_FullFrame ==
    /\ pc = "mp_full"
    /\ \E roll \in RollsFor(Global) :
         LET x == DoubleExposureWithState(Bufs, Global, in, roll)
         IN  /\ sil' = x.b.sil
             /\ trail' = x.b.trail
             /\ de' = x.b.de
             /\ act' = x.b.act
             /\ loc' = [loc EXCEPT !.processed_full = x.res]
             /\ pc' = IF x.res.ok THEN "mp_panel" ELSE "threw"
    /\ UNCHANGED <<genVars, ctlVars, num_panels, width, height, panel_init, ac, in, out, hist>>

\* Lines 730-731, 759-760, 774-775: the columns [x_start, x_end) of panel i.
PanelXStart(i, panel_width) == i * panel_width

PanelXEndNoRemainder(i, panel_width, cols, n) == (i + 1) * panel_width

PanelXEnd(i, panel_width, cols, n) ==
    IF i = n - 1 THEN cols ELSE (i + 1) * panel_width

\* Lines 733, 766, 783: the effect of panel i, loaded for this panel.
PanelEffect(i) == IF loc.individual THEN panel_effects[i] ELSE display_mode

\* The body of one iteration of the panel loops (lines 729-755, 758-768, 773-794):
\* the panel's render and the buffers after it. f is the panel's input: its slice of
\* the frame (EXTEND) or the whole frame resized to the panel (REPEAT).
PanelIteration(b, effect, i, f, roll) ==
    IF loc.mode = EXTEND /\ loc.full7
    THEN IF effect = DOUBLE_EXPOSURE
         THEN [b |-> b,
               res |-> Render(loc.processed_full.k, DOUBLE_EXPOSURE, Global, f.w, f.h, 3, 0,
                              loc.processed_full.past, TRUE)]
         ELSE IF effect = PROCEDURAL_SHAPES
         THEN ProceduralShapes(b, Global, f.w, f.h)
         ELSE ProcessPanelRegion(b, effect, i, f, roll)
    ELSE ProcessPanelRegion(b, effect, i, f, roll)

\* Whether panel result r reaches the output frame's region of width w. In EXTEND
\* mode out_region is a header on the output's columns: copyTo fills them when r has
\* their size (lines 740, 813-922), while processProceduralShapes assigns a new Mat to
\* the header (line 338) and leaves the columns as allocated. In REPEAT mode the
\* result is copied into the region (line 793).
Lands(r, w) ==
    IF loc.mode = EXTEND /\ r.k = "shapes" THEN FALSE ELSE r.w = w /\ r.h = in.h

MP_Panel ==
    /\ pc = "mp_panel"
    /\ LET i      == loc.i
           x0     == PanelXStart(i, loc.panel_width)
           x1     == PanelXEnd(i, loc.panel_width, in.w, num_panels)
           f      == [w |-> x1 - x0, h |-> in.h, ch |-> in.ch]
           effect == PanelEffect(i)
       IN  \E roll \in RollsFor(PanelStateCtx(i)) \cup RollsFor(Global) :
             LET x == PanelIteration(Bufs, effect, i, f, roll)
             IN  /\ sil' = x.b.sil
                 /\ trail' = x.b.trail
                 /\ de' = x.b.de
                 /\ act' = x.b.act
                 /\ out' = [out EXCEPT !.reg = Append(@,
                               [x0 |-> x0, x1 |-> x1, r |-> x.res,
                                src |-> IF loc.mode = EXTEND THEN "slice" ELSE "resized",
                                written |-> Lands(x.res, x1 - x0)])]
                 /\ loc' = [loc EXCEPT !.i = i + 1,
                               !.used.display_mode =
                                   IF loc.individual THEN @ ELSE @ \cup {display_mode}]
                 /\ pc' = IF ~x.res.ok THEN "threw"
                          ELSE IF i + 1 = num_panels THEN "idle" ELSE "mp_panel"
    /\ UNCHANGED <<genVars, ctlVars, num_panels, width, height, panel_init, ac, in, hist>>

\* --------------------------------------------------------------- frames
InputFrame(sz) == Mat3(sz[1], sz[2])

\* The capture keeps its resolution except for MaxResizes changes.
MayDeliver(f) == (f.w = width /\ f.h = height) \/ hist.resizes < MaxResizes

\* ------------------------------------------- specification: auto-cycling
\* One panel, a camera of one resolution, the runner toggling auto-cycling between
\* frames; the run ends after MaxSwitches switches.
InitCycle == Constructed(4, 2, 1)

FrameCycle ==
    /\ hist.switches < MaxSwitches
    /\ \E seconds \in CycleSeconds : PF_Begin(Mat3(width, height), seconds)

SwitchCycle == \E seconds \in CycleSeconds : AC_Store(seconds)

ToggleCycle ==
    /\ hist.toggles < MaxToggles
    /\ \E seconds \in CycleSeconds : ToggleAutoCycling(seconds)

NextCycle ==
    \/ FrameCycle
    \/ AC_SavePrevious
    \/ AC_LoadNext
    \/ SwitchCycle
    \/ PF_LoadMultiPanel
    \/ PF_RenderCurrent
    \/ TR_SaveMode
    \/ TR_RenderPrevious
    \/ TR_RenderCurrent
    \/ ToggleCycle

SpecCycle == InitCycle /\ [][NextCycle]_vars


\* ------------------------------------------ specification: Double Exposure
\* The state after AppCore core(w, h, 1); core.toggleAutoCycling();
\* core.setDisplayMode(7): one panel, auto-cycling off, Double Exposure selected.
DoubleExposureSelected(w, h) ==
    /\ display_mode = DOUBLE_EXPOSURE
    /\ multi_panel_enabled = FALSE
    /\ panel_mode = EXTEND
    /\ panel_effects = [i \in 0 .. 0 |-> 1]
    /\ num_panels = 1
    /\ width = w
    /\ height = h
    /\ sil = [c \in {Global} |-> [w |-> w, h |-> h, dirty |-> FALSE]]
    /\ trail = [w |-> w, h |-> h, dirty |-> FALSE]
    /\ de = [c \in {Global} |-> FreshDE(INITIAL_TIME_OFFSET)]
    /\ panel_init = FALSE
    /\ ac = [enabled |-> FALSE, counter |-> 0, untilNext |-> 0, remaining |-> 0,
             previous_mode |-> 1, alphaNum |-> 0]
    /\ pc = "idle"
    /\ in = EmptyMat
    /\ out = NoOutput
    /\ loc = FreshLocals
    /\ act = NoActivity(1)
    /\ hist = [FreshHistory EXCEPT !.toggles = 1]
    /\ NoGenerators

InitDE == DoubleExposureSelected(4, 2)

\* A camera of one resolution, until MaxWrites frames are in the ring.
FrameDE ==
    /\ de[Global].written < MaxWrites
    /\ \E seconds \in {MIN_CYCLE_SECONDS} : PF_Begin(Mat3(width, height), seconds)

NextDE ==
    \/ FrameDE
    \/ PF_LoadMultiPanel
    \/ PF_RenderCurrent

SpecDE == InitDE /\ [][NextDE]_vars

\* The same with a camera that changes its resolution up to MaxResizes times, until
\* MaxResizeWrites frames are in the ring.
InitResize == \E sz \in FrameSizes : DoubleExposureSelected(sz[1], sz[2])

FrameResize ==
    /\ de[Global].written < MaxResizeWrites
    /\ \E sz \in FrameSizes :
         /\ MayDeliver(InputFrame(sz))
         /\ PF_Begin(InputFrame(sz), MIN_CYCLE_SECONDS)

NextResize ==
    \/ FrameResize
    \/ PF_LoadMultiPanel
    \/ PF_RenderCurrent

SpecResize == InitResize /\ [][NextResize]_vars

\* The last Double Exposure render of the global context and its ring.
LastRender == out.reg[1].r
RenderedDE == pc = "idle" /\ Len(out.reg) = 1 /\ LastRender.eff = DOUBLE_EXPOSURE

\* C5 (as claimed): when at least o frames were written before the current one, the
\* past frame blended with the current frame (write number `written`) is the frame of
\* write number written - o, o the current time offset.
C5_PastFrameIsOffsetTicksBack ==
    (RenderedDE /\ de[Global].written - 1 >= de[Global].toff)
        => LastRender.past = de[Global].written - de[Global].toff

\* C6: a Double Exposure call made when fewer than o frames have been written into the
\* ring (the current one included) returns the input unchanged, and one made when at
\* least o have been written takes the blend branch with a stored frame.
C6_PassThroughUntilOffsetFrames ==
    RenderedDE =>
        /\ de[Global].written < de[Global].toff
              => (LastRender.k = "dexp_pass" /\ LastRender.past = 0
                  /\ LastRender.w = in.w /\ LastRender.h = in.h /\ LastRender.ch = in.ch)
        /\ de[Global].written >= de[Global].toff
              => (LastRender.k = "dexp_blend" /\ LastRender.past >= 1
                  /\ LastRender.past <= de[Global].written)

\* Both branches have been taken: a pass-through frame just below the offset, and a
\* blend after the ring has wrapped and the offset has been re-rolled to its maximum.
C6_Witness ==
    /\ RenderedDE
    /\ de[Global].written > MAX_FRAME_HISTORY
    /\ de[Global].toff = MAX_TIME_OFFSET
    /\ LastRender.k = "dexp_blend"

\* C7 (as claimed): once processFrame has adapted to the input (ensureSize has run),
\* every persistent buffer of the global context has the input's size: the
\* accumulator, the trail-age buffer and every stored frame of the ring; and no effect
\* fails on stored data of another size.
C7_BuffersFollowResolution ==
    (pc # "idle" /\ ~IsEmpty(in)) =>
        /\ sil[Global].w = in.w /\ sil[Global].h = in.h
        /\ trail.w = in.w /\ trail.h = in.h
        /\ \A k \in DOMAIN de[Global].ring :
              de[Global].ring[k].seq # 0
                  => (de[Global].ring[k].w = in.w /\ de[Global].ring[k].h = in.h)
        /\ pc # "threw"

\* ------------------------------------------------ specification: compositor
\* The state 89 frames after AppCore core(w, h, n), all of them passed through by
\* effect 1, with the interval of 3 seconds drawn on the first frame: the next frame
\* brings the first auto-cycle switch.
SwitchDue(w, h, n) ==
    /\ display_mode = 1
    /\ multi_panel_enabled = FALSE
    /\ panel_mode = EXTEND
    /\ panel_effects = [i \in 0 .. n - 1 |-> 1]
    /\ num_panels = n
    /\ width = w
    /\ height = h
    /\ sil = [c \in {Global} |-> [w |-> w, h |-> h, dirty |-> FALSE]]
    /\ trail = [w |-> w, h |-> h, dirty |-> FALSE]
    /\ de = [c \in {Global} |-> FreshDE(INITIAL_TIME_OFFSET)]
    /\ panel_init = FALSE
    /\ ac = [enabled |-> TRUE,
             counter |-> getRandomCycleInterval(MIN_CYCLE_SECONDS) - 1,
             untilNext |-> getRandomCycleInterval(MIN_CYCLE_SECONDS),
             remaining |-> 0, previous_mode |-> 1, alphaNum |-> 0]
    /\ pc = "idle"
    /\ in = Mat3(w, h)
    /\ out = WholeFrame(Render("pass", 1, Global, w, h, 3, 0, 0, TRUE))
    /\ loc = [FreshLocals EXCEPT
                 !.used = [display_mode |-> {1}, multi_panel_enabled |-> {FALSE},
                           panel_mode |-> IF n > 1 THEN {EXTEND} ELSE {}]]
    /\ act = NoActivity(n)
    /\ hist = [FreshHistory EXCEPT
                 !.sinceIdle = getRandomCycleInterval(MIN_CYCLE_SECONDS) - 1,
                 !.sinceSwitch = getRandomCycleInterval(MIN_CYCLE_SECONDS) - 1]
    /\ NoGenerators

InitPanels == \E sz \in FrameSizes, n \in 1 .. MaxPanels : Constructed(sz[1], sz[2], n)

InitConc ==
    \E sz \in FrameSizes, n \in 1 .. MaxPanels :
        Constructed(sz[1], sz[2], n) \/ SwitchDue(sz[1], sz[2], n)

\* The camera delivers MaxFrames frames of the resolution the core was built for.
FramePanels ==
    /\ hist.frames < MaxFrames
    /\ PF_Begin(InputFrame(<<width, height>>), MIN_CYCLE_SECONDS)

\* The camera delivers MaxFrames frames, changing its resolution up to MaxResizes times.
FrameConc ==
    /\ hist.frames < MaxFrames
    /\ \E sz \in FrameSizes :
         /\ MayDeliver(InputFrame(sz))
         /\ PF_Begin(InputFrame(sz), MIN_CYCLE_SECONDS)

SwitchPanels == AC_Store(MIN_CYCLE_SECONDS)

\* The keyboard handler's stores, MaxStores of them.
StoreDisplayMode ==
    hist.stores < MaxStores /\ \E m \in SelectableEffects : SetDisplayMode(m)
StoreMultiPanel ==
    hist.stores < MaxStores /\ \E e \in BOOLEAN : SetMultiPanelEnabled(e)
StorePanelMode ==
    hist.stores < MaxStores /\ \E m \in {EXTEND, REPEAT} : SetPanelMode(m)
StorePanelEffect ==
    /\ hist.stores < MaxStores
    /\ \E i \in 0 .. num_panels - 1, e \in PanelSelectableEffects : SetPanelEffect(i, e)

\* processFrame without a transition, and processMultiPanel without its full-frame
\* Double Exposure branch (lines 716-756), which no frame enters when the stores
\* arrive between frames: line 77 or 78 sent it to the compositor, so line 716 finds
\* individual_effects set or the mode REPEAT.
PanelThread ==
    \/ PF_LoadMultiPanel
    \/ PF_LoadPanelMode
    \/ PF_RenderCurrent
    \/ MP_Init
    \/ MP_LoadIndividual
    \/ MP_Panel

\* A runner that handles its keys between two frames (desktop_to_matrix.cpp:165-275).
KeyDisplayMode == pc = "idle" /\ StoreDisplayMode
KeyMultiPanel == pc = "idle" /\ StoreMultiPanel
KeyPanelMode == pc = "idle" /\ StorePanelMode
KeyPanelEffect == pc = "idle" /\ StorePanelEffect

NextPanels ==
    \/ FramePanels
    \/ PanelThread
    \/ KeyDisplayMode
    \/ KeyMultiPanel
    \/ KeyPanelMode
    \/ KeyPanelEffect

SpecPanels == InitPanels /\ [][NextPanels]_vars

\* The same runner with the auto-cycle switch and its transition.
NextSeq ==
    \/ FramePanels
    \/ AC_SavePrevious
    \/ AC_LoadNext
    \/ SwitchPanels
    \/ TR_SaveMode
    \/ TR_RenderPrevious
    \/ TR_RenderCurrent
    \/ PanelThread
    \/ KeyDisplayMode
    \/ KeyMultiPanel
    \/ KeyPanelMode
    \/ KeyPanelEffect

SpecSeq == InitConc /\ [][NextSeq]_vars

\* Stores arrive at any point of processFrame (the input thread).
NextConc ==
    \/ FrameConc
    \/ AC_SavePrevious
    \/ AC_LoadNext
    \/ SwitchPanels
    \/ TR_SaveMode
    \/ TR_RenderPrevious
    \/ TR_RenderCurrent
    \/ PanelThread
    \/ MP_LoadMode7
    \/ MP_FullFrame
    \/ StoreDisplayMode
    \/ StoreMultiPanel
    \/ StorePanelMode
    \/ StorePanelEffect

SpecConc == InitConc /\ [][NextConc]_vars

\* The effect numbers processFrame dispatches on (lines 126-136); every valid-effect
\* list is drawn from them.
KnownEffects == 1 .. NUM_MODES

\* processFrame has returned a frame for the non-empty input `in`.
Returned == pc = "idle" /\ ~IsEmpty(in)

\* The frame processFrame has returned has the input's width and height and 3
\* channels.
OutputHasInputSize == Returned => (out.w = in.w /\ out.h = in.h /\ out.ch = 3)

\* C1 (as claimed): every processFrame call on a non-empty 3-channel frame writes an
\* output frame of the input's width and height with 3 channels: no call ends
\* without one, and the frame a call returns has that size.
C1_EveryFrameGetsOutputOfInputSize == pc # "threw" /\ OutputHasInputSize

\* C2 (as claimed): when processFrame returns, the stored active effect is one of the
\* known effects, of which every SystemMode's valid list is a part.
C2_StoredEffectValidAfterFrame ==
    [][(pc # "idle" /\ pc' = "idle") => display_mode' \in KnownEffects]_vars

\* The frame was composed by the EXTEND loop of processMultiPanel.
ExtendComposed ==
    /\ Returned
    /\ Len(out.reg) = num_panels
    /\ \A k \in 1 .. num_panels : out.reg[k].src = "slice"

\* C8: in Extend mode with N panels and a frame of width W >= N, panel i < N-1 gets
\* the columns [i*(W div N), (i+1)*(W div N)), the last panel those from
\* (N-1)*(W div N) to W, and every column of the frame lies in exactly one region.
C8_ExtendPartitionsColumns ==
    ExtendComposed =>
        /\ \A k \in 1 .. num_panels :
              /\ out.reg[k].x0 = (k - 1) * (in.w \div num_panels)
              /\ out.reg[k].x1 = IF k = num_panels THEN in.w
                                 ELSE k * (in.w \div num_panels)
        /\ \A col \in 0 .. in.w - 1 :
              Cardinality({k \in 1 .. num_panels :
                              out.reg[k].x0 <= col /\ col < out.reg[k].x1}) = 1

\* An odd width: the last of two panels takes the remainder column.
C8_Witness ==
    /\ ExtendComposed
    /\ num_panels = 2
    /\ in.w = 5
    /\ out.reg[2].x0 = 2
    /\ out.reg[2].x1 = 5

\* C9: the step that processes panel i leaves the motion model, the silhouette
\* accumulator and the Double Exposure state of every other panel and of the global
\* context as they were.
C9_PanelStepTouchesOwnStateOnly ==
    [][pc = "mp_panel" =>
          \A c \in DOMAIN de :
             c # PanelCtx(loc.i) =>
                /\ de'[c] = de[c]
                /\ sil'[c] = sil[c]
                /\ act'.bg[c] = act.bg[c]
                /\ act'.sil[c] = act.sil[c]
                /\ act'.ring[c] = act.ring[c]]_vars

\* Two frames composed of a Motion Trails panel and a Double Exposure panel: each has
\* advanced its own state and not the other's.
C9_Witness ==
    /\ Returned
    /\ num_panels = 2
    /\ panel_init
    /\ de[PanelCtx(1)].written = 2
    /\ de[PanelCtx(0)].written = 0
    /\ de[Global].written = 0
    /\ act.bg[PanelCtx(0)] = 1
    /\ act.bg[PanelCtx(1)] = 0

\* C10 (as claimed): all the loads of one control signal made by one processFrame
\* call yield one value.
C10_OneValuePerFrame ==
    \A sig \in DOMAIN loc.used : Cardinality(loc.used[sig]) <= 1

\* C11: a processFrame call that finds auto-cycling disabled returns with
\* cycleCounter, framesUntilNext, transitionFramesRemaining, transitionAlpha and the
\* active effect as it found them, and no step of it changes the four counters.
C11_DisabledCyclingIsFrozen ==
    [][/\ (~ac.enabled /\ ~ac'.enabled) => ac' = ac
       /\ (pc # "idle" /\ pc' = "idle" /\ ~hist.atBegin.ac.enabled)
             => (ac' = hist.atBegin.ac /\ display_mode' = hist.atBegin.mode)]_vars

\* A frame processed with auto-cycling switched off in the middle of a transition:
\* it was blended, and the counters stand where they stood.
C11_Witness ==
    /\ Returned
    /\ ~ac.enabled
    /\ hist.atBegin.ac = ac
    /\ ac.counter > 0
    /\ ac.remaining > 0
    /\ out.blend

\* C12: re-enabling auto-cycling leaves cycleCounter 0, framesUntilNext between 3 and
\* 7 seconds of frames and transitionFramesRemaining 0, and the first frame processed
\* after it goes through no transition step and is the current effect's output alone.
C12_ReenablingCancelsTransition ==
    /\ (hist.sinceEnable = 0 /\ ac.enabled)
          => /\ ac.counter = 0
             /\ ac.remaining = 0
             /\ ac.untilNext \in {getRandomCycleInterval(sec) : sec \in CycleSeconds}
    /\ hist.sinceEnable = 1
          => pc \notin {"ac_prev", "ac_next", "ac_store", "tr_save", "tr_prev", "tr_cur"}
    /\ (hist.sinceEnable = 1 /\ Returned)
          => /\ ~out.blend
             /\ Len(out.reg) = 1
             /\ out.reg[1].r.eff = display_mode
             /\ out.reg[1].r.k # "blend"

\* The frame after the switch frame, processed after auto-cycling was switched off and
\* on again: the transition that had 30 frames to go is gone.
C12_Witness ==
    /\ Returned
    /\ hist.sinceEnable = 1
    /\ hist.afterSwitch = 2
    /\ hist.toggles = 2
    /\ ac.remaining = 0
    /\ ~out.blend

\* What was rendered for an effect number that is none of the known ones is the input
\* handed to the dispatcher, unchanged.
UnknownPassedThrough(r, w) ==
    (r # NoRender /\ r.eff \notin KnownEffects)
        => (r.k = "pass" /\ r.w = w /\ r.h = in.h /\ r.ch = in.ch /\ r.ok)

\* C13: for an effect number that is not a known effect, processFrame (in its three
\* switches) and processPanelRegion yield their input frame or region unchanged, and
\* a panel's region of the output holds it.
C13_UnknownEffectPassesThrough ==
    /\ pc # "idle" => UnknownPassedThrough(loc.prev_output, in.w)
    /\ (Returned /\ ~out.blend) =>
          \A k \in 1 .. Len(out.reg) :
             /\ UnknownPassedThrough(out.reg[k].r, out.reg[k].x1 - out.reg[k].x0)
             /\ out.reg[k].r.eff \notin KnownEffects => out.reg[k].written
    /\ (Returned /\ out.blend) =>
          /\ UnknownPassedThrough(out.prev, in.w)
          /\ UnknownPassedThrough(out.cur, in.w)

\* An EXTEND frame whose last panel has the unknown effect 9.
C13_Witness ==
    /\ Returned
    /\ Len(out.reg) = 2
    /\ out.reg[2].src = "slice"
    /\ out.reg[2].r.eff = 9
    /\ out.reg[2].r.k = "pass"
    /\ out.reg[2].written

\* The effect assigned to panel i: its own when per-panel effects are enabled, the
\* active effect otherwise (lines 733, 766, 783).
AssignedEffect(i) == IF multi_panel_enabled THEN panel_effects[i] ELSE display_mode

\* C14 (as claimed): in Repeat mode with several panels, the auto-cycle step advances
\* every panel's assigned effect to its successor, each from its own effect.
C14_CycleAdvancesEveryPanel ==
    [][(pc = "ac_store" /\ pc' = "flags" /\ panel_mode = REPEAT /\ num_panels > 1)
          => \A i \in 0 .. num_panels - 1 :
                AssignedEffect(i)' = NextMode(AssignedEffect(i))]_vars

\* ------------------------------------------- global and per-panel processors
\* Two cores fed the same frames, auto-cycling switched off in both. Core A runs effect
\* e as its display mode (processFrame, lines 126-136: the global processors on the
\* global buffers). Core B has one panel with per-panel effects on and effect e on
\* panel 0 (processMultiPanel, lines 756-769: processPanelRegion on the whole frame,
\* with the panel buffers that ensurePanelResourcesInitialized created). Context
\* Global holds core A's buffers, context PanelCtx(0) core B's panel buffers.
MotionEffects == {2, 3, 4, 6, DOUBLE_EXPOSURE}

InitTwin ==
    \E e \in MotionEffects :
       /\ display_mode = e
       /\ multi_panel_enabled = TRUE
       /\ panel_mode = EXTEND
       /\ panel_effects = [i \in 0 .. 0 |-> e]
       /\ num_panels = 1
       /\ width = 4
       /\ height = 2
       /\ sil = [c \in 0 .. 1 |-> [w |-> 4, h |-> 2, dirty |-> FALSE]]
       /\ trail = [w |-> 4, h |-> 2, dirty |-> FALSE]
       /\ de = [c \in 0 .. 1 |->
                  IF c = Global THEN FreshDE(INITIAL_TIME_OFFSET)
                  ELSE FreshDE(MIN_TIME_OFFSET)]
       /\ panel_init = TRUE
       /\ ac = [FreshCycle EXCEPT !.enabled = FALSE]
       /\ pc = "idle"
       /\ in = EmptyMat
       /\ out = NoOutput
       /\ loc = FreshLocals
       /\ act = NoActivity(1)
       /\ hist = [FreshHistory EXCEPT !.toggles = 1]
       /\ NoGenerators

\* One frame handed to both cores: out.prev is what core A returns, out.cur what
\* core B returns. Both cores draw the same value from rand() at line 646.
TwinFrame ==
    /\ pc = "idle"
    /\ hist.twin < MaxTwinFrames
    /\ \E roll \in RollsFor(Global) \cup RollsFor(PanelCtx(0)) :
          LET f == Mat3(width, height)
              b == [Bufs EXCEPT !.act = NoActivity(1)]
              g == ProcessGlobal(b, display_mode, f, roll)
              p == ProcessPanelRegion(g.b, panel_effects[0], 0, f, roll)
          IN  /\ in' = f
              /\ sil' = p.b.sil
              /\ trail' = p.b.trail
              /\ de' = p.b.de
              /\ act' = p.b.act
              /\ out' = [NoOutput EXCEPT !.w = f.w, !.h = f.h, !.ch = 3,
                                         !.prev = g.res, !.cur = p.res]
    /\ hist' = [hist EXCEPT !.twin = @ + 1]
    /\ UNCHANGED <<genVars, ctlVars, num_panels, width, height, panel_init, ac, pc, loc>>

NextTwin == TwinFrame

SpecTwin == InitTwin /\ [][NextTwin]_vars

\* Two renders are the same picture: same algorithm, same size, same contour-area
\* threshold, same past frame, both well-formed.
SameFrame(g, p) ==
    /\ g.k = p.k
    /\ g.w = p.w /\ g.h = p.h /\ g.ch = p.ch
    /\ g.area = p.area
    /\ g.past = p.past
    /\ g.ok = p.ok

\* C15 (as claimed): for every motion-driven effect, the global processor and the
\* per-panel processor, both from fresh state and fed the same same-size frames,
\* return the same frame on every call.
C15_GlobalAndPanelAgree ==
    hist.twin > 0 => SameFrame(out.prev, out.cur)

\* ------------------------------------------------ root-vein generator
\* MandelbrotRootVeinsEffect. segments_ is kept as the number of its elements by
\* class: size = segments_.size(); tips = elements with is_tip and not is_wilting;
\* branchTips = the tips of generation > 0;
\* branches = elements of generation > 0 that are not wilting; wilting = elements
\* with is_wilting and wilt_progress < 1; wilted = elements with wilt_progress >= 1.
\* Elements of generation 0 are the rest. time is time_ in ticks of dt = 1/30 s
\* (line 345). idle counts the consecutive growVeins calls that found no tip,
\* spawned the branches that spawnBranch has pushed and marks the elements that were
\* marked as wilting (all three ghost).
\* Positions, lengths and ages are floating-point geometry: what they decide in one
\* call (how many tips leave the canvas, how many segments are long enough, how
\* many intersections are found, which elements are old enough) is an input.
GeneratorSizes == {<<64, 32>>}

TwoSeconds == 2 * FPS

\* reset (lines 17-23) with initializeRootVeins (lines 25-55): four roots, all tips.
\* generations holds the generation numbers given to segments so far.
FreshVeins(w, h) ==
    [width |-> w, height |-> h, size |-> 4, tips |-> 4, branchTips |-> 0, branches |-> 0,
     wilting |-> 0, wilted |-> 0, time |-> 0, idle |-> 0, spawned |-> 0, marks |-> 0,
     generations |-> {0}]

\* What a count of k candidates can come to in one call: none or all of them.
Outcomes(k) == {0, k}

\* Lines 124 and 223: an element is pushed only while segments_.size() < MAX_SEGMENTS.
\* (Pushing without looking at the size.)
PushesUnchecked(size, wanted) == wanted

Pushes(size, wanted) ==
    IF wanted <= MAX_SEGMENTS - size THEN wanted ELSE MAX_SEGMENTS - size

\* growVeins (lines 84-140) on network v: of the tips, stop leave the canvas and lose
\* is_tip (lines 112-116), long of the others have seg_len > 50 (line 123), and
\* asBranch of the pushed continuations inherit a generation > 0 (line 130). The loop
\* is a range-for over segments_ that push_back grows: after a reallocation the
\* remaining iterations run on the released elements, their writes are lost and the
\* pushes still go through the size test of line 124.
growVeins(v, stop, long, asBranch) ==
    LET pushed == Pushes(v.size, long)
    IN  [v EXCEPT !.size = @ + pushed,
                  !.tips = @ - stop + pushed,
                  !.branchTips = (IF stop = 0 THEN @ ELSE 0) + asBranch,
                  !.branches = @ + asBranch,
                  !.idle = IF v.tips = 0
                           THEN (IF @ <= TwoSeconds THEN @ + 1 ELSE @)
                           ELSE 0]

\* Line 229: branch.generation = parent_generation + 1.
BranchGeneration(parent_generation) == parent_generation + 1

\* Lines 188-191: an intersection of segments i and j is kept for branching when the
\* larger of their two generations is below MAX_GENERATION.
BranchAllowed(gen_i, gen_j) ==
    (IF gen_i > gen_j THEN gen_i ELSE gen_j) < MAX_GENERATION

\* checkIntersections (lines 170-220) with spawnBranch (lines 222-237): found
\* intersections of generation < MAX_GENERATION; each is spawned as a tip of
\* generation > 0 while the size is below the cap, and past the cap each marks the
\* first element of generation > 0 that is not wilting and older than 2 s as wilting
\* (marked of them exist, tipsMarked of those are tips). parent_gen is the largest
\* generation among the segments that end within 20 px of the intersection (lines
\* 209-216), and the branch gets the generation after it (line 229).
checkIntersections(v, found, marked, tipsMarked, parent_gen) ==
    IF v.size < 2 THEN v
    ELSE LET pushed == Pushes(v.size, found)
         IN  [v EXCEPT !.size = @ + pushed,
                       !.generations = IF pushed > 0
                                       THEN @ \cup {BranchGeneration(parent_gen)}
                                       ELSE @,
                       !.tips = @ + pushed - tipsMarked,
                       !.branchTips = @ + pushed - tipsMarked,
                       !.branches = @ + pushed - marked,
                       !.wilting = @ + marked,
                       !.spawned = @ + pushed,
                       !.marks = @ + marked]

\* Line 250: static_cast<int>(time_ * 10) % 50 == 0, time_ = ticks / 30.
RemovalDue(ticks) == ((10 * ticks) \div FPS) % 50 = 0

\* updateWilting (lines 239-255): wilt_progress advances on every wilting element,
\* done of them reach 1; when removal is due, the elements at 1 (all of generation
\* > 0, roots are never marked) are erased.
updateWilting(v, done) ==
    LET w1 == [v EXCEPT !.wilting = @ - done, !.wilted = @ + done]
    IN  IF RemovalDue(v.time)
        THEN [w1 EXCEPT !.size = @ - w1.wilted, !.wilted = 0]
        ELSE w1

\* ------------------------------------------------ oval-chain generator
\* OvalChainEffect. Lengths are in tenths of a pixel, angles in milliradians, time_
\* and cycle_start_time_ in ticks of dt = 1/30 s (line 131).
ChainDirections == {FROM_LEFT, FROM_RIGHT, FROM_TOP, FROM_BOTTOM}

IsHorizontal(d) == d \in {FROM_LEFT, FROM_RIGHT}

\* Lines 42 and 162: link_spacing = LINK_OUTER_WIDTH * 0.55f.
LinkSpacing == (LINK_OUTER_WIDTH * 55) \div 10

HalfPi == 1571
Pi == 3142

\* sin of an angle in milliradians, in thousandths (Bhaskara's rational form of the
\* half wave; std::sin to within 0.002).
HalfWave(x) == (16 * x * (Pi - x)) \div ((5 * Pi * Pi - 4 * x * (Pi - x)) \div 1000)

Sin(a) ==
    LET x == a % (2 * Pi)
    IN  IF x <= Pi THEN HalfWave(x) ELSE 0 - HalfWave(x - Pi)

Cos(a) == Sin(a + HalfPi)

\* Lines 91-95 and 199, 206: even links lie along the chain, odd links across it.
BaseRotation(d, i) ==
    IF IsHorizontal(d)
    THEN (IF i % 2 = 0 THEN 0 ELSE HalfPi)
    ELSE (IF i % 2 = 0 THEN HalfPi ELSE 0)

\* buildInterlockingChain (lines 35-115): trail_links_ for direction d on a w x h
\* canvas; element k of the sequence is link i = k - 1.
buildInterlockingChain(w, h, d) ==
    LET total_travel == (IF IsHorizontal(d) THEN w ELSE h) * 10 + LINK_OUTER_WIDTH * 40
        wanted       == total_travel \div LinkSpacing + 2
        num_links    == IF wanted < MAX_TRAIL_LINKS THEN wanted ELSE MAX_TRAIL_LINKS
        sign         == IF d \in {FROM_LEFT, FROM_TOP} THEN 1 ELSE -1
        start_x      == CASE d = FROM_LEFT  -> 0 - LINK_OUTER_WIDTH * 20
                          [] d = FROM_RIGHT -> w * 10 + LINK_OUTER_WIDTH * 20
                          [] OTHER          -> w * 5
        start_y      == CASE d = FROM_TOP    -> 0 - LINK_OUTER_WIDTH * 20
                          [] d = FROM_BOTTOM -> h * 10 + LINK_OUTER_WIDTH * 20
                          [] OTHER           -> h * 5
    IN  [k \in 1 .. num_links |->
            [x |-> IF IsHorizontal(d) THEN start_x + (k - 1) * LinkSpacing * sign
                                      ELSE start_x,
             y |-> IF IsHorizontal(d) THEN start_y
                                      ELSE start_y + (k - 1) * LinkSpacing * sign,
             rotation |-> BaseRotation(d, k - 1)]]

\* startNewChain (lines 20-33) on chain c; d is rand() % 4.
startNewChain(c, d) ==
    [c EXCEPT !.current_direction = d,
              !.trail_links = buildInterlockingChain(c.width, c.height, d),
              !.cycle_start_time = c.time]

\* OvalChainEffect::OvalChainEffect (lines 11-18).
FreshChain(w, h, d) ==
    startNewChain([width |-> w, height |-> h, time |-> 0, cycle_start_time |-> 0,
                   current_direction |-> FROM_LEFT, trail_links |-> <<>>,
                   draws |-> <<>>], d)

\* (A cycle taken as complete one tick early.)
CycleCompleteEarly(cycle_time) == cycle_time + 1 >= TRAVERSE_TIME * FPS

\* Lines 149-153: progress = cycle_time / TRAVERSE_TIME >= 1, cycle_time in ticks.
CycleComplete(cycle_time) == cycle_time >= TRAVERSE_TIME * FPS

\* updateChain (lines 146-212) on chain c; d is the direction startNewChain draws
\* when the cycle is complete.
updateChain(c, d) ==
    LET cycle_time == c.time - c.cycle_start_time
        horizontal == IsHorizontal(c.current_direction)
        n          == Len(c.trail_links)
        screen     == (IF horizontal THEN c.width ELSE c.height) * 10
        margin     == LINK_OUTER_WIDTH * 20
        total_travel == margin + screen + n * LinkSpacing + margin
        head_offset  == (cycle_time * total_travel) \div (TRAVERSE_TIME * FPS) - margin
        dir_mult   == IF c.current_direction \in {FROM_RIGHT, FROM_BOTTOM} THEN -1 ELSE 1
        start      == CASE c.current_direction = FROM_LEFT   -> 0
                        [] c.current_direction = FROM_RIGHT  -> c.width * 10
                        [] c.current_direction = FROM_TOP    -> 0
                        [] c.current_direction = FROM_BOTTOM -> c.height * 10
        link_pos(i)    == head_offset - i * LinkSpacing
        wave_offset(i) ==
            (OSCILLATION_AMPLITUDE * Sin((250 * c.time) \div 3 + 400 * i)) \div 100
        wobble(i)      == Sin(100 * c.time + 500 * i) \div 40
    IN  IF CycleComplete(cycle_time)
        THEN startNewChain(c, d)
        ELSE [c EXCEPT !.trail_links =
                 [k \in 1 .. n |->
                     [x |-> IF horizontal THEN start + link_pos(k - 1) * dir_mult
                                          ELSE c.width * 5 + wave_offset(k - 1),
                      y |-> IF horizontal THEN c.height * 5 + wave_offset(k - 1)
                                          ELSE start + link_pos(k - 1) * dir_mult,
                      rotation |-> BaseRotation(c.current_direction, k - 1) + wobble(k - 1)]]]

\* isPointInEllipseHole (lines 226-242): point <<px, py>> against the hole of ring.
isPointInEllipseHole(px, py, ring) ==
    LET dx == px - ring.x
        dy == py - ring.y
        cos_r == Cos(0 - ring.rotation)
        sin_r == Sin(0 - ring.rotation)
        local_x == (dx * cos_r - dy * sin_r) \div 1000
        local_y == (dx * sin_r + dy * cos_r) \div 1000
        hole_width  == (LINK_OUTER_WIDTH * HOLE_RATIO * 5) \div 100
        hole_height == (LINK_OUTER_HEIGHT * HOLE_RATIO * 5) \div 100
    IN  local_x * local_x * hole_height * hole_height
          + local_y * local_y * hole_width * hole_width
            < hole_width * hole_width * hole_height * hole_height

\* Lines 263-267, 279-283, 292-296: a link further than 2 * max(LINK_OUTER_WIDTH,
\* LINK_OUTER_HEIGHT) outside the frame is skipped.
OnScreen(link, cols, rows) ==
    LET max_dim == IF LINK_OUTER_WIDTH > LINK_OUTER_HEIGHT
                   THEN LINK_OUTER_WIDTH * 10 ELSE LINK_OUTER_HEIGHT * 10
    IN  ~ \/ link.x < 0 - max_dim * 2
          \/ link.x > cols * 10 + max_dim * 2
          \/ link.y < 0 - max_dim * 2
          \/ link.y > rows * 10 + max_dim * 2

\* The indices 0 .. n - 1 in order, and the drawing calls for a list of indices.
LinkIndices(n) == [k \in 1 .. n |-> k - 1]

DrawCalls(indices, part) ==
    [k \in 1 .. Len(indices) |-> [i |-> indices[k], part |-> part]]

\* (One pass over the links: each even link whole, then its odd neighbour.)
renderChainInIndexOrder(links, cols, rows) ==
    LET shown == SelectSeq(LinkIndices(Len(links)),
                           LAMBDA i : OnScreen(links[i + 1], cols, rows))
        pass[k \in 0 .. Len(shown)] ==
            IF k = 0 THEN <<>>
            ELSE pass[k - 1] \o
                 (IF shown[k] % 2 = 0
                  THEN DrawCalls(<<shown[k]>>, "back") \o DrawCalls(<<shown[k]>>, "front")
                  ELSE DrawCalls(<<shown[k]>>, "full"))
    IN  pass[Len(shown)]

\* renderChain (lines 252-300) on a frame of cols x rows: the drawing calls in the
\* order they are made. drawLinkHalf(frame, link, false) is the back half ("back"),
\* drawMetallicRing the whole link ("full"), drawLinkHalf(frame, link, true) the
\* front half ("front").
renderChain(links, cols, rows) ==
    LET shown == SelectSeq(LinkIndices(Len(links)),
                           LAMBDA i : OnScreen(links[i + 1], cols, rows))
        even  == SelectSeq(shown, LAMBDA i : i % 2 = 0)
        odd   == SelectSeq(shown, LAMBDA i : i % 2 = 1)
    IN  DrawCalls(even, "back") \o DrawCalls(odd, "full") \o DrawCalls(even, "front")

\* ------------------------------------------------ process() of the generators
\* A frame a generator hands back: its size and what it holds ("black": all zero,
\* "drawn": the picture, "partial": the picture as far as it was drawn).
Frame(w, h, k) == [w |-> w, h |-> h, ch |-> 3, k |-> k]

\* Lines 336-343 (veins), 123-129 (chain), 26-27 (shapes): the size of the output.
OutputSize(target_width, target_height, w, h) ==
    LET output_width  == IF target_width > 0 THEN target_width ELSE w
        output_height == IF target_height > 0 THEN target_height ELSE h
    IN  IF output_width <= 0 \/ output_height <= 0
        THEN <<640, 480>>
        ELSE <<output_width, output_height>>

\* ProceduralShapesEffect::reset (procedural_shapes.cpp:14-22); shape_morph_progress
\* in steps of 0.0075.
FreshShapes(w, h) ==
    [width |-> w, height |-> h, procedural_frame_counter |-> 0,
     current_shape_type |-> 0, shape_morph_progress |-> 0]

\* WavePatternsEffect::reset (wave_patterns.cpp:14-17); wave_time_ = 0.05 * ticks and
\* wave_phase_ = 0.02 * ticks.
FreshWave(w, h) == [width |-> w, height |-> h, ticks |-> 0]

NoCall ==
    [gen |-> "none", target |-> <<0, 0>>, expected |-> <<0, 0>>, fail |-> FALSE,
     threw |-> FALSE, out |-> Frame(0, 0, "black"), nth |-> 0]

\* What the caller of process() observes: the exception, if one left the call, and
\* out_bgr; nth is the number of the call on that generator.
Called(gen, target, expected, fail, threw, frame, nth) ==
    [gen |-> gen, target |-> target, expected |-> expected, fail |-> fail,
     threw |-> threw, out |-> frame, nth |-> nth]

\* The shapes and wave objects and the last call made on any generator.
FreshCalls(w, h) ==
    [shapes |-> FreshShapes(w, h), wave |-> FreshWave(w, h), last |-> NoCall]

\* The handlers of MandelbrotRootVeinsEffect::process (lines 419-427) and of
\* OvalChainEffect::process (lines 140-143): out_bgr = zeros of the output size.
Caught(sz) == [threw |-> FALSE, out |-> Frame(sz[1], sz[2], "black")]

\* MandelbrotRootVeinsEffect::process (lines 329-428); fail: an OpenCV operation of
\* the try block (lines 357, 416, 417) throws. The call advances time_ and touches
\* no segment.
VeinsProcess(target, fail) ==
    /\ veins # <<>>
    /\ LET sz  == OutputSize(target[1], target[2], veins.width, veins.height)
           res == IF fail THEN Caught(sz)
                  ELSE [threw |-> FALSE, out |-> Frame(sz[1], sz[2], "drawn")]
       IN  IF veins.width <= 0 \/ veins.height <= 0
           THEN /\ call' = [call EXCEPT !.last =
                              Called("veins", target, <<640, 480>>, fail, FALSE,
                                     Frame(640, 480, "black"), veins.time)]
                /\ UNCHANGED veins
           ELSE /\ veins' = [veins EXCEPT !.time = @ + 1]
                /\ call' = [call EXCEPT !.last =
                              Called("veins", target, sz, fail, res.threw, res.out,
                                     veins.time + 1)]
    /\ UNCHANGED <<coreVars, chain>>

\* OvalChainEffect::process (lines 117-144); fail: a drawing operation of renderChain
\* throws cv::Exception; d: the direction drawn if the cycle restarts.
ChainProcess(target, fail, d) ==
    /\ chain # <<>>
    /\ LET sz  == OutputSize(target[1], target[2], chain.width, chain.height)
           res == IF fail THEN Caught(sz)
                  ELSE [threw |-> FALSE, out |-> Frame(sz[1], sz[2], "drawn")]
       IN  IF chain.width <= 0 \/ chain.height <= 0
           THEN /\ call' = [call EXCEPT !.last =
                              Called("chain", target, <<640, 480>>, fail, FALSE,
                                     Frame(640, 480, "black"), chain.time)]
                /\ UNCHANGED chain
           ELSE /\ chain' = LET c == updateChain([chain EXCEPT !.time = @ + 1], d)
                          IN  [c EXCEPT !.draws =
                                  IF fail THEN <<>>
                                  ELSE renderChain(c.trail_links, sz[1], sz[2])]
                /\ call' = [call EXCEPT !.last =
                              Called("chain", target, sz, fail, res.threw, res.out,
                                     chain.time + 1)]
    /\ UNCHANGED <<coreVars, veins>>

\* Line 44 of procedural_shapes.cpp: shape_morph_progress_ reaches 1 after this many
\* steps of 0.0075.
MorphSteps == 10000 \div 75 + 1

\* (The index counted on without the wrap.)
NextShapeTypeUnwrapped(current_shape_type) == current_shape_type + 1

\* Line 42: current_shape_type_ = (current_shape_type_ + 1) % 5.
NextShapeType(current_shape_type) == (current_shape_type + 1) % 5

\* ProceduralShapesEffect::process (procedural_shapes.cpp:24-195); fail: a drawing
\* operation of drawMorphingShape (line 190) throws. The body has no try block: the
\* exception leaves the call, out_bgr holds the zeros of line 30 and the shapes drawn
\* before the failing one.
ShapesProcess(target, fail) ==
    /\ call # <<>>
    /\ LET g   == call.shapes
           w   == IF target[1] > 0 THEN target[1] ELSE g.width
           h   == IF target[2] > 0 THEN target[2] ELSE g.height
           wrapped == g.shape_morph_progress >= MorphSteps
           g1  == [g EXCEPT !.procedural_frame_counter = @ + 1,
                            !.current_shape_type = IF wrapped THEN NextShapeType(@) ELSE @,
                            !.shape_morph_progress =
                                IF wrapped THEN 1
                                ELSE IF @ + 1 < MorphSteps THEN @ + 1 ELSE MorphSteps]
       IN  call' = [call EXCEPT
                       !.shapes = g1,
                       !.last = Called("shapes", target, <<w, h>>, fail, fail,
                                       Frame(w, h, IF fail THEN "partial" ELSE "drawn"),
                                       g1.procedural_frame_counter)]
    /\ UNCHANGED <<coreVars, veins, chain>>

\* WavePatternsEffect::process (wave_patterns.cpp:20-64); fail: cv::resize (line 63)
\* throws. The body has no try block: the exception leaves the call and out_bgr
\* holds the zeros of line 21.
WaveProcess(fail) ==
    /\ call # <<>>
    /\ LET g == call.wave
       IN  call' = [call EXCEPT
                       !.wave.ticks = @ + 1,
                       !.last = Called("wave", <<-1, -1>>, <<g.width, g.height>>, fail, fail,
                                       Frame(g.width, g.height,
                                             IF fail THEN "black" ELSE "drawn"),
                                       g.ticks + 1)]
    /\ UNCHANGED <<coreVars, veins, chain>>

\* The core is not part of a generator run.
CoreUnused ==
    /\ display_mode = 1
    /\ multi_panel_enabled = FALSE
    /\ panel_mode = EXTEND
    /\ panel_effects = [i \in 0 .. 0 |-> 1]
    /\ num_panels = 1
    /\ width = 0
    /\ height = 0
    /\ sil = [c \in {Global} |-> [w |-> 0, h |-> 0, dirty |-> FALSE]]
    /\ trail = [w |-> 0, h |-> 0, dirty |-> FALSE]
    /\ de = [c \in {Global} |-> FreshDE(INITIAL_TIME_OFFSET)]
    /\ panel_init = FALSE
    /\ ac = FreshCycle
    /\ pc = "idle"
    /\ in = EmptyMat
    /\ out = NoOutput
    /\ loc = FreshLocals
    /\ act = NoActivity(1)
    /\ hist = FreshHistory

\* Sizes a caller asks for: the generator's own (-1, -1) or a panel's.
TargetSizes == {<<-1, -1>>, <<32, 32>>}

\* ------------------------------------------- specification: the four generators
\* One object of each generator; callers call process() in any order, and any call
\* may meet a failing drawing operation.
InitGenerators ==
    \E sz \in GeneratorSizes, d \in ChainDirections :
       /\ CoreUnused
       /\ veins = FreshVeins(sz[1], sz[2])
       /\ chain = FreshChain(sz[1], sz[2], d)
       /\ call = FreshCalls(sz[1], sz[2])

CallsMade ==
    veins.time + chain.time + call.shapes.procedural_frame_counter + call.wave.ticks

CallVeins ==
    /\ CallsMade < MaxGenCalls
    /\ \E target \in TargetSizes, fail \in BOOLEAN : VeinsProcess(target, fail)

CallChain ==
    /\ CallsMade < MaxGenCalls
    /\ \E target \in TargetSizes, fail \in BOOLEAN, d \in ChainDirections :
          ChainProcess(target, fail, d)

CallShapes ==
    /\ CallsMade < MaxGenCalls
    /\ \E target \in TargetSizes, fail \in BOOLEAN : ShapesProcess(target, fail)

CallWave ==
    /\ CallsMade < MaxGenCalls
    /\ \E fail \in BOOLEAN : WaveProcess(fail)

NextGenerators == CallVeins \/ CallChain \/ CallShapes \/ CallWave

SpecGenerators == InitGenerators /\ [][NextGenerators]_vars

\* C16 (as claimed): a failure raised by a drawing operation inside process() of any
\* of the four generators does not reach the caller: the call returns an all-black
\* frame of the expected size, and the next call on that generator is accepted.
C16_FailureBecomesBlackFrame ==
    (call.last.gen # "none" /\ call.last.fail)
        => /\ ~call.last.threw
           /\ call.last.out = Frame(call.last.expected[1], call.last.expected[2], "black")

\* ------------------------------------------- specification: root-vein network
\* The growth, branching and wilting steps in any order, with process() ticks
\* between them. process() of this source does not call the three steps
\* (lines 329-428); they are driven here as the tick they were written for.
InitVeins ==
    \E sz \in GeneratorSizes :
       /\ CoreUnused
       /\ veins = FreshVeins(sz[1], sz[2])
       /\ chain = <<>>
       /\ call = FreshCalls(sz[1], sz[2])

\* How many of marked newly wilting elements were tips: the elements of generation
\* > 0 that are not wilting are tips or not, and only so many of each exist.
MarkedTips(v, marked) ==
    LET others == v.branches - v.branchTips
    IN  {IF marked > others THEN marked - others ELSE 0,
         IF marked < v.branchTips THEN marked ELSE v.branchTips}

\* How many of pushed continuations come from tips of generation > 0, when long of
\* the tips left after stop are long enough: all of them without the cap, and at
\* the cap whichever of the tips the loop reaches first.
BranchContinuations(v, stop, long) ==
    LET pushed == Pushes(v.size, long)
        bt     == IF stop = 0 THEN v.branchTips ELSE 0
        rt     == v.tips - stop - bt
    IN  IF long = 0 THEN {0}
        ELSE IF pushed = long THEN {bt}
        ELSE {IF pushed > rt THEN pushed - rt ELSE 0,
              IF pushed < bt THEN pushed ELSE bt}

VeinsGrow ==
    /\ \E stop \in Outcomes(veins.tips) :
          \E long \in Outcomes(veins.tips - stop) :
             \E asBranch \in BranchContinuations(veins, stop, long) :
                veins' = growVeins(veins, stop, long, asBranch)
    /\ UNCHANGED <<coreVars, chain, call>>

\* The generations <<gi, gj>> of two crossing segments that lines 188-191 keep.
BranchingPairs(v) ==
    {p \in v.generations \X v.generations : BranchAllowed(p[1], p[2])}

\* The values parent_gen can take in a call that spawns (lines 209-216): 0 when no
\* segment ends near the intersection, else a generation some segment has.
ParentGenerations(v, found) ==
    IF Pushes(v.size, found) = 0 THEN {0} ELSE v.generations

VeinsIntersect ==
    /\ BranchingPairs(veins) # {}
    /\ \E found \in 0 .. MaxBranches :
          LET rest == found - Pushes(veins.size, found)
              old  == IF rest < veins.branches THEN rest ELSE veins.branches
          IN  /\ veins.spawned + Pushes(veins.size, found) <= MaxSpawned
              /\ \E marked \in {m \in Outcomes(old) : veins.marks + m <= MaxMarked} :
                    \E tipsMarked \in MarkedTips(veins, marked) :
                       \E parent_gen \in ParentGenerations(veins, found) :
                          veins' = checkIntersections(veins, found, marked, tipsMarked,
                                                      parent_gen)
    /\ UNCHANGED <<coreVars, chain, call>>

VeinsWilt ==
    /\ \E done \in Outcomes(veins.wilting) : veins' = updateWilting(veins, done)
    /\ UNCHANGED <<coreVars, chain, call>>

VeinsTick ==
    /\ veins.time < MaxVeinTicks
    /\ \E target \in TargetSizes : VeinsProcess(target, FALSE)

NextVeins == VeinsGrow \/ VeinsIntersect \/ VeinsWilt \/ VeinsTick

SpecVeins == InitVeins /\ [][NextVeins]_vars

\* C17: after every growth, intersection and wilting step the network holds at most
\* MAX_SEGMENTS segments, and the step at the cap pushes none.
C17_SegmentsWithinCap ==
    /\ veins.size <= MAX_SEGMENTS
    /\ veins.size >= 4 + veins.branches + veins.wilting + veins.wilted
    /\ veins.tips <= veins.size - veins.wilting - veins.wilted
    /\ veins.branchTips <= veins.tips /\ veins.branchTips <= veins.branches

\* A network that grew to the cap, was refused further growth there, and wilts.
C17_Witness ==
    veins.size = MAX_SEGMENTS /\ veins.wilting > 0 /\ veins.tips > 0 /\ veins.spawned > 0

\* C18 (as claimed): a network without an active tip does not persist for more than
\* 2 seconds of growth ticks: by then it is the four fresh corner roots again.
C18_NoTipsResetsWithinTwoSeconds ==
    veins.idle >= TwoSeconds
        => (veins.size = 4 /\ veins.tips = 4 /\ veins.branches = 0
            /\ veins.wilting = 0 /\ veins.wilted = 0)

\* --------------------------------------------- specification: oval chain
\* One chain generator, one process() call per frame.
InitChain ==
    \E sz \in GeneratorSizes, d \in ChainDirections :
       /\ CoreUnused
       /\ veins = <<>>
       /\ chain = FreshChain(sz[1], sz[2], d)
       /\ call = FreshCalls(sz[1], sz[2])

ChainTick ==
    /\ chain.time < MaxChainTicks
    /\ \E target \in TargetSizes, d \in ChainDirections : ChainProcess(target, FALSE, d)

NextChain == ChainTick

SpecChain == InitChain /\ [][NextChain]_vars

\* Link i of the chain (element i + 1 of trail_links_).
Link(i) == chain.trail_links[i + 1]

\* The last process() call updated the chain inside a cycle (no restart).
UpdatedWithinCycle ==
    call.last.gen = "chain" /\ chain.time > chain.cycle_start_time

\* C19 (as claimed): after every chain update within a cycle, the centre of every
\* odd-indexed link lies in the hole ellipse of an adjacent even-indexed link.
C19_OddLinksThreadEvenHoles ==
    UpdatedWithinCycle =>
        \A i \in 0 .. Len(chain.trail_links) - 1 :
           i % 2 = 1 =>
              \E j \in {i - 1, i + 1} \cap (0 .. Len(chain.trail_links) - 1) :
                 isPointInEllipseHole(Link(i).x, Link(i).y, Link(j))

C21_StoreDuringFrameSurvives ==
    (pc = "idle" /\ hist.lastSet # 0 /\ ~hist.switched) => display_mode = hist.lastSet

\* The successor of effect m in the ordered list 1, 2, ..., NUM_MODES, wrapping.
ListSuccessor(m) == IF m = NUM_MODES THEN 1 ELSE m + 1

SharedDoubleExposureFrame ==
    /\ Returned
    /\ num_panels > 1
    /\ loc.used.multi_panel_enabled = {FALSE}
    /\ loc.used.panel_mode = {EXTEND}
    /\ hist.atBegin.mode = DOUBLE_EXPOSURE
    /\ ~hist.switched

\* The frame is one full-frame Double Exposure result on the global state: one write
\* into the global ring buffer, none into a per-panel one, and the columns of every
\* panel taken from that result.
SingleFullFrameResult ==
    /\ act.ring[Global] = 1
    /\ \A c \in 1 .. num_panels : act.ring[c] = 0
    /\ ~out.blend
    /\ \A i \in 0 .. num_panels - 1 :
          \E j \in 1 .. Len(out.reg) :
              /\ out.reg[j].x0 <= PanelXStart(i, PanelWidth(in.w, num_panels))
              /\ PanelXEnd(i, PanelWidth(in.w, num_panels), in.w, num_panels) <= out.reg[j].x1
              /\ out.reg[j].written
              /\ out.reg[j].r.eff = DOUBLE_EXPOSURE
              /\ out.reg[j].r.ctx = Global
              /\ out.reg[j].r.k \in {"dexp_pass", "dexp_blend"}

\* C23 (as claimed): with more than one panel, Extend, per-panel effects disabled and
\* Double Exposure active, every processFrame call writes the global ring buffer
\* exactly once, no per-panel ring buffer, and every panel's columns are those of the
\* one full-frame Double Exposure result.
C23_SharedDoubleExposureOnce == SharedDoubleExposureFrame => SingleFullFrameResult

\* C23 (amended): the same, for calls that find no transition in flight; a call
\* during a transition returns the cross-fade of the previous effect's frame and the
\* Double Exposure result.
C23_SharedDoubleExposureOnceNoTransition ==
    (SharedDoubleExposureFrame /\ ac.remaining = 0) => SingleFullFrameResult

C23_Witness ==
    /\ SharedDoubleExposureFrame
    /\ ac.remaining = 0
    /\ hist.frames >= 2
    /\ de[Global].written >= 2
    /\ Len(out.reg) = 1

\* The last processFrame call rendered its frame without the compositor.
SingleContextFrame ==
    /\ Returned
    /\ Len(out.reg) = 1
    /\ out.reg[1].src = "whole"

\* C24 (as claimed): a processFrame call in single-context processing applies the
\* global background subtractor to the input at most once, also when it renders the
\* previous and the current effect of a transition.
C24_GlobalMotionModelUpdatedOnce == SingleContextFrame => act.bg[Global] <= 1

\* C25: switching auto-cycling off during a transition leaves the transition as it
\* is, and while auto-cycling stays off with the transition in flight no step changes
\* transitionFramesRemaining, transitionAlpha or the previous effect, and every
\* processFrame call returns the blend of the previous and the current effect at that
\* transitionAlpha.
C25_DisabledTransitionStaysFrozen ==
    [][/\ (ac.enabled /\ ~ac'.enabled)
             => /\ ac'.remaining = ac.remaining
                /\ ac'.alphaNum = ac.alphaNum
                /\ ac'.previous_mode = ac.previous_mode
       /\ (~ac.enabled /\ ac.remaining > 0 /\ ~ac'.enabled)
             => /\ ac'.remaining = ac.remaining
                /\ ac'.alphaNum = ac.alphaNum
                /\ ac'.previous_mode = ac.previous_mode
       /\ (~ac.enabled /\ ac.remaining > 0 /\ pc # "idle" /\ pc' = "idle")
             => /\ out'.blend
                /\ out'.alphaNum = ac.alphaNum
                /\ out'.prev.eff = ac.previous_mode
                /\ out'.cur.eff = display_mode']_vars

\* Two frames in a row processed with auto-cycling switched off part-way through a
\* transition; the second is still blended at the alpha of the first.
C25_Witness ==
    /\ Returned
    /\ ~ac.enabled
    /\ ~hist.atBegin.ac.enabled
    /\ hist.sinceEnable = 2
    /\ ac.remaining > 0
    /\ ac.remaining < TRANSITION_FRAMES
    /\ out.blend
    /\ out.alphaNum = ac.alphaNum
    /\ out.alphaNum > 0

\* ------------------------------------- specification: Double Exposure offsets
\* The state after AppCore core(4, 2, 2); core.toggleAutoCycling();
\* core.setDisplayMode(7); core.setPanelEffect(0, 7); core.setPanelEffect(1, 7), with
\* per-panel effects on or off: two panels, every frame a Double Exposure frame, on
\* the global state (per-panel effects off) or on the two panel states (on).
InitOffsets ==
    /\ display_mode = DOUBLE_EXPOSURE
    /\ multi_panel_enabled \in BOOLEAN
    /\ panel_mode = EXTEND
    /\ panel_effects = [i \in 0 .. 1 |-> DOUBLE_EXPOSURE]
    /\ num_panels = 2
    /\ width = 4
    /\ height = 2
    /\ sil = [c \in {Global} |-> [w |-> 4, h |-> 2, dirty |-> FALSE]]
    /\ trail = [w |-> 4, h |-> 2, dirty |-> FALSE]
    /\ de = [c \in {Global} |-> FreshDE(INITIAL_TIME_OFFSET)]
    /\ panel_init = FALSE
    /\ ac = [FreshCycle EXCEPT !.enabled = FALSE]
    /\ pc = "idle"
    /\ in = EmptyMat
    /\ out = NoOutput
    /\ loc = FreshLocals
    /\ act = NoActivity(2)
    /\ hist = [FreshHistory EXCEPT !.toggles = 1]
    /\ NoGenerators

\* Frames stored so far in the global ring buffer and in panel 0's.
FramesStored ==
    de[Global].written + (IF panel_init THEN de[PanelCtx(0)].written ELSE 0)

FrameOffsets ==
    /\ FramesStored < MaxOffsetFrames
    /\ PF_Begin(Mat3(width, height), MIN_CYCLE_SECONDS)

\* The runner switches per-panel effects on or off between two frames.
KeyOffsets ==
    /\ pc = "idle"
    /\ hist.stores < MaxOffsetStores
    /\ SetMultiPanelEnabled(~multi_panel_enabled)

NextOffsets ==
    \/ FrameOffsets
    \/ PF_LoadMultiPanel
    \/ PF_LoadPanelMode
    \/ PF_RenderCurrent
    \/ MP_Init
    \/ MP_LoadIndividual
    \/ MP_Panel
    \/ KeyOffsets

SpecOffsets == InitOffsets /\ [][NextOffsets]_vars

\* C26: the time offset of every Double Exposure context, global or per panel, is
\* within MIN_TIME_OFFSET .. MAX_TIME_OFFSET and its frame counter below 60 between
\* calls; a step changes a context's offset only when it is the frame on which that
\* context's counter reaches 60, and that step leaves the counter at 0.
C26_OffsetInRangeAndRerolledAtSixty ==
    [][\A c \in DOMAIN de' :
          /\ de'[c].toff \in MIN_TIME_OFFSET .. MAX_TIME_OFFSET
          /\ de'[c].fcount \in 0 .. OFFSET_PERIOD - 1
          /\ c \in DOMAIN de =>
                /\ de'[c].toff # de[c].toff
                      => /\ de[c].fcount + 1 = OFFSET_PERIOD
                         /\ de'[c].written = de[c].written + 1
                /\ (de[c].fcount + 1 = OFFSET_PERIOD /\ de'[c].written # de[c].written)
                      => de'[c].fcount = 0
                /\ (de[c].fcount + 1 < OFFSET_PERIOD /\ de'[c].written # de[c].written)
                      => /\ de'[c].fcount = de[c].fcount + 1
                         /\ de'[c].toff = de[c].toff]_vars

\* Both panel contexts have re-rolled their offsets on their 60th frame, to different
\* values, after the global context had stored a frame of its own.
C26_Witness ==
    /\ panel_init
    /\ pc = "idle"
    /\ de[Global].written = 1
    /\ de[Global].toff = INITIAL_TIME_OFFSET
    /\ de[PanelCtx(0)].written = OFFSET_PERIOD
    /\ de[PanelCtx(0)].fcount = 0
    /\ de[PanelCtx(0)].toff = MAX_TIME_OFFSET
    /\ de[PanelCtx(1)].toff = MIN_TIME_OFFSET + 1

\* ------------------------------------- specification: vein generations
\* The growth and branching steps on a small network, every intersection spawning
\* one branch.
VeinsGrowSmall ==
    /\ veins.tips > 0
    /\ veins.size < MaxGenerationSegments
    /\ VeinsGrow

\* checkIntersections finding one intersection: segments i and j of generations gi
\* and gj cross, and the segments ending within 20 px of the crossing have generations
\* up to parent_gen. A branch spawned there on an earlier tick still ends within
\* 20 px of it (it starts at the crossing and grows GROWTH_SPEED = 3 px per tick).
VeinsBranch ==
    /\ veins.spawned < MaxGenerationSpawns
    /\ BranchingPairs(veins) # {}
    /\ \E parent_gen \in ParentGenerations(veins, 1) :
          veins' = checkIntersections(veins, 1, 0, 0, parent_gen)
    /\ UNCHANGED <<coreVars, chain, call>>

NextGenerations == VeinsGrowSmall \/ VeinsBranch \/ VeinsTick

SpecGenerations == InitVeins /\ [][NextGenerations]_vars

\* C27 (as claimed): every segment created, roots, continuations and branches
\* spawned at intersections, has a generation of at most MAX_GENERATION.
C27_GenerationWithinMax == \A g \in veins.generations : g <= MAX_GENERATION

\* The places in the last frame's drawing order where part of link i was drawn.
DrawnAt(i, part) ==
    {p \in 1 .. Len(chain.draws) : chain.draws[p] = [i |-> i, part |-> part]}

\* C28: in the drawing order of every rendered frame, an even-indexed link is drawn
\* as a back half and a front half, an odd-indexed one whole, each once; and for
\* every even link i drawn and every adjacent odd link j drawn, the back half of i
\* comes before j and the front half of i after j.
C28_EvenLinkWrapsOddNeighbours ==
    \A i \in 0 .. Len(chain.trail_links) - 1 :
       IF i % 2 = 0
       THEN /\ DrawnAt(i, "full") = {}
            /\ Cardinality(DrawnAt(i, "back")) = Cardinality(DrawnAt(i, "front"))
            /\ Cardinality(DrawnAt(i, "back")) <= 1
            /\ \A j \in {i - 1, i + 1} :
                  \A b \in DrawnAt(i, "back"), o \in DrawnAt(j, "full"),
                     f \in DrawnAt(i, "front") : b < o /\ o < f
       ELSE /\ DrawnAt(i, "back") = {} /\ DrawnAt(i, "front") = {}
            /\ Cardinality(DrawnAt(i, "full")) <= 1

\* A frame in which link 2 was drawn around its neighbours 1 and 3, while other
\* links of the chain were off the screen and skipped.
C28_Witness ==
    /\ call.last.gen = "chain"
    /\ DrawnAt(2, "back") # {} /\ DrawnAt(2, "front") # {}
    /\ DrawnAt(1, "full") # {} /\ DrawnAt(3, "full") # {}
    /\ DrawnAt(0, "back") = {}
    /\ DrawnAt(Len(chain.trail_links) - 1, "full") = {}
    /\ DrawnAt(Len(chain.trail_links) - 2, "back") = {}

\* C29: a tick changes the chain's direction or its number of links only if travel
\* progress, (time - cycle start) / TRAVERSE_TIME, has reached 1 on it; every tick on
\* which it has builds a new chain for a direction out of the four and sets the cycle
\* start to the current time, and every other tick keeps direction, number of links
\* and cycle start.
C29_RestartOnlyAtFullProgress ==
    [][chain'.time # chain.time =>
          IF chain'.time - chain.cycle_start_time >= TRAVERSE_TIME * FPS
          THEN /\ chain'.current_direction \in ChainDirections
               /\ chain'.trail_links =
                     buildInterlockingChain(chain.width, chain.height,
                                            chain'.current_direction)
               /\ chain'.cycle_start_time = chain'.time
          ELSE /\ chain'.current_direction = chain.current_direction
               /\ Len(chain'.trail_links) = Len(chain.trail_links)
               /\ chain'.cycle_start_time = chain.cycle_start_time]_vars

\* The chain restarted when its first cycle was complete, in another direction and
\* with another number of links, and has moved on since.
C29_Witness ==
    /\ call.last.gen = "chain"
    /\ chain.cycle_start_time = TRAVERSE_TIME * FPS
    /\ chain.time > chain.cycle_start_time
    /\ chain.current_direction = FROM_TOP
    /\ Len(chain.trail_links) # Len(buildInterlockingChain(chain.width, chain.height,
                                                          FROM_LEFT))

\* --------------------------------------------- specification: shape field
\* One shape generator, one process() call per frame, any of which may meet a
\* failing drawing operation.
InitShapes ==
    \E sz \in GeneratorSizes :
       /\ CoreUnused
       /\ veins = <<>>
       /\ chain = <<>>
       /\ call = FreshCalls(sz[1], sz[2])

ShapesTick ==
    /\ call.shapes.procedural_frame_counter < MaxShapeTicks
    /\ \E target \in TargetSizes, fail \in BOOLEAN : ShapesProcess(target, fail)

NextShapes == ShapesTick

SpecShapes == InitShapes /\ [][NextShapes]_vars

\* C30: the shape index is in 0 .. 4 and morph progress at most 1 (MorphSteps steps
\* of 0.0075); a tick changes the index only if morph progress was 1 when it began,
\* and such a tick moves the index on by one modulo 5 and restarts the progress from
\* 0, which the same tick advances by its one step.
C30_ShapeIndexAdvancesAtFullMorph ==
    [][call'.shapes # call.shapes =>
          /\ call'.shapes.current_shape_type \in 0 .. 4
          /\ call'.shapes.shape_morph_progress \in 0 .. MorphSteps
          /\ IF call.shapes.shape_morph_progress = MorphSteps
             THEN /\ call'.shapes.current_shape_type =
                        (IF call.shapes.current_shape_type = 4 THEN 0
                         ELSE call.shapes.current_shape_type + 1)
                  /\ call'.shapes.shape_morph_progress = 0 + 1
             ELSE /\ call'.shapes.current_shape_type = call.shapes.current_shape_type
                  /\ call'.shapes.shape_morph_progress
                        = call.shapes.shape_morph_progress + 1]_vars

\* The field has morphed through all five shapes and is a circle again.
C30_Witness ==
    /\ call.last.gen = "shapes"
    /\ call.shapes.procedural_frame_counter > 5 * MorphSteps
    /\ call.shapes.current_shape_type = 0
    /\ call.shapes.shape_morph_progress = 1

C4_AlphaOneOnThirtiethFrame ==
    hist.afterSwitch = TRANSITION_FRAMES
        => (ac.alphaNum = TRANSITION_FRAMES /\ ac.remaining = 0)

\* C4 (amended): while auto-cycling is not toggled after a switch, transition_alpha_ is
\* k/30 on the k-th frame after the switch (0 on the switch frame, 1 exactly on the
\* 30th, when transition_frames_remaining_ becomes 0); frames 0..29 are blended with
\* that alpha and the 30th and later frames are not blended.
C4_TransitionRamp ==
    /\ (hist.steady /\ hist.switched)
          => (ac.alphaNum = 0 /\ ac.remaining = TRANSITION_FRAMES)
    /\ (hist.steady /\ hist.afterSwitch \in 0 .. TRANSITION_FRAMES)
          => (ac.alphaNum = hist.afterSwitch
              /\ ac.remaining = TRANSITION_FRAMES - hist.afterSwitch)
    /\ (hist.steady /\ pc = "idle" /\ hist.afterSwitch \in 0 .. TRANSITION_FRAMES - 1)
          => (out.blend /\ out.alphaNum = hist.afterSwitch)
    /\ (hist.steady /\ pc = "idle" /\ hist.afterSwitch >= TRANSITION_FRAMES)
          => ~out.blend

\* The 30th frame after a switch has been rendered, unblended, with alpha = 1.
C4_Witness ==
    /\ hist.steady
    /\ pc = "idle"
    /\ hist.afterSwitch = TRANSITION_FRAMES
    /\ ac.alphaNum = TRANSITION_FRAMES
    /\ ~out.blend

====
